---------------------------- MODULE Spec2Model ----------------------------
(***************************************************************************)
(* A model of the BlueALSA transport control plane and I/O engine:         *)
(*   - src/src/bluealsa-dbus.c : the PCM "Open" method and the PCM control *)
(*     channel (Drain / Drop / Pause / Resume),                            *)
(*   - src/src/io.c            : the per-transport I/O threads (A2DP       *)
(*     source, A2DP sink, SCO) with their signal pipe and readiness wait.  *)
(* One transport is modelled; its profile, codec and keep-alive setting    *)
(* are chosen in Init and stay fixed for a behaviour.                      *)
(***************************************************************************)
EXTENDS Integers, Sequences, FiniteSets, TLC

(***************************************************************************)
(* Bounds of the model.                                                    *)
(***************************************************************************)
MaxOpens == 1
MaxSent == 3
MaxData == 1

(***************************************************************************)
(* Program constants.                                                      *)
(***************************************************************************)
DrainPollTimeout == 100           \* io.c: poll_timeout = 100 on PCM_SYNC
NoTimeout == -1                   \* io.c: int poll_timeout = -1
NoFd == -1                        \* "fd == -1": endpoint closed

A2DP_SOURCE == "A2DP_SOURCE"
A2DP_SINK == "A2DP_SINK"
HFP_AG == "HFP_AG"
HFP_HF == "HFP_HF"
RFCOMM == "RFCOMM"

\* The transport profiles of the model (one bit each in the program).
Profiles == {A2DP_SOURCE, A2DP_SINK, HFP_AG, RFCOMM}

\* IS_BA_TRANSPORT_PROFILE_SCO(profile)
IsSco(p) == p \in {HFP_AG, HFP_HF}

\* HFP codec of an SCO transport; A2DP transports use SBC.
Codecs(p) == IF IsSco(p) THEN {"UNDEFINED", "CVSD"} ELSE {"SBC"}

\* The transport states of the specification's state machine.
States == {"IDLE", "ACTIVE", "PAUSED"}

\* enum ba_transport_signal
Signals == {"PING", "PCM_OPEN", "PCM_CLOSE", "PCM_PAUSE", "PCM_RESUME",
            "PCM_SYNC", "PCM_DROP"}

\* PCM endpoints of a transport: t->a2dp.pcm, t->sco.spk_pcm, t->sco.mic_pcm
Endpoints == {"a2dp", "spk", "mic"}

\* Sessions: one per Open that created descriptors.  A session number stands
\* for the internal end of that Open's PCM pipe.
Sessions == 1..MaxOpens

VARIABLES
  profile,      \* t->type.profile
  codec,        \* t->type.codec
  keep_alive,   \* config.a2dp.keep_alive (seconds)
  state,        \* t->state
  pcmFd,        \* pcm->fd of every endpoint: NoFd or a session
  nOpens,       \* number of sessions created so far
  sess,         \* per session: endpoint, pipe content, who holds which end
  written,      \* chunks written by clients so far
  sigq,         \* content of the signal pipe, oldest first: [sig, id]
  nextId,       \* serial number of the next signal written
  lastId,       \* serial number of the signal the I/O thread read last
  ctlPc,        \* main thread: "idle", or "draining" inside drain_pcm
  drainReq,     \* "none" | "pending" (SYNC sent) | "signalled"
  last,         \* the last control-plane operation, with its effects in order
  ioPc,         \* I/O thread: "none" | "top" | "poll" | "exited"
  poll_timeout, \* the thread's poll_timeout
  pfds,         \* descriptors the thread put into the current poll()
  ioEvt,        \* what the last loop iteration of the I/O thread did
  btFd,         \* t->bt_fd: NoFd or 1
  scoOut,       \* SCO: chunks buffered towards the BT socket (bt_out)
  scoIn,        \* SCO: chunks buffered towards the microphone PCM (bt_in)
  ba_dbus_id,   \* t->ba_dbus_id: 0 or the id of the exported object
  events,       \* D-Bus signals emitted for the transport's path, oldest first
  refs,         \* the transport's reference count
  thread,       \* t->thread: "main" (config.main_thread) or a thread id
  running,      \* the ids of the I/O threads started and not yet returned
  nCreate,      \* number of io_thread_create calls so far
  createRet,    \* what the last io_thread_create returned
  seq_number,   \* RTP: the encoder loop's uint16_t seq_number
  hdr_seq,      \* RTP: rtp_header->seq_number (host byte order)
  packets,      \* RTP: the write attempts so far: [seq, res]
  aacLeft,      \* RTP/AAC: fragments of the current frame still to be written
  rtpPc,        \* RTP: "none" | "loop" | "exited"
  sbcCfg,       \* SBC source: [mtu, frame_len, codesize] of the transport
  pcmLen,       \* SBC source: samples held in the pcm buffer (ffb_len_out)
  sbcPkt,       \* SBC source: the packet handed to the last BT write
  sbcEvt,       \* SBC source: what the last loop iteration did
  sbcPc,        \* SBC source: "none" | "loop" | "exited"
  aacFrame,     \* AAC source: length of the frame the encoder gave last
  aacLen,       \* AAC source: payload_len, what is left to send of it
  aacOff,       \* AAC source: offset in the frame of the byte at rtp_payload
  aacTs,        \* AAC source: timestamp
  aacHdrTs,     \* AAC source: rtp_header->timestamp
  aacFrags,     \* AAC source: the write attempts for the current frame
  aacN,         \* AAC source: frames encoded so far
  aacPc,        \* AAC source: "none" | "loop" | "exited"
  a2dp_volume,  \* config.a2dp.volume: the volume is forwarded to the peer
  ch1_volume,   \* t->a2dp.ch1_volume
  ch1_muted,    \* t->a2dp.ch1_muted
  volFlow,      \* volume: the flow that handled the last batch
  volIn,        \* volume: a sample of the batch as it came in
  volOut,       \* volume: the same sample as it was passed on
  volN,         \* volume: batches handled so far
  h2Data,       \* H2 scan: the bytes given to msbc_find_h2_header
  h2Res,        \* H2 scan: the offset returned (NoOffset: NULL) and *len
  h2Pc,         \* H2 scan: "none" | "ready" | "done"
  bFlow,        \* encode loop: the source flow
  bIn,          \* encode loop: PCM held in the pcm buffer
  bPasses,      \* encode loop: passes made since the last poll()
  bLast,        \* encode loop: what the last pass did
  bPc,          \* encode loop: "none" | "wait" | "batch" | "exited"
  markbit_quirk, \* AAC sink: markbit_quirk of the thread
  mPcm,         \* AAC sink: the PCM is open (t->a2dp.pcm.fd != -1)
  mSeen,        \* AAC sink: mark bits of the packets handled with the PCM open
  mLatm,        \* AAC sink: packets gathered in the latm buffer
  mLast,        \* AAC sink: what was done with the last packet
  thFlow,       \* thread: the I/O routine
  thPc,         \* thread: where the thread is
  cancelstate,  \* thread: its cancellation state
  lockCount,    \* thread: how often it holds the transport lock
  locked,       \* thread: the local variable locked
  stack,        \* thread: the cleanup handlers pushed, last one first
  cancelReq,    \* thread: pthread_cancel was called for it
  cleanupLock,  \* thread: lockCount when ba_transport_pthread_cleanup ran
  thWay,        \* thread: the way it ended
  sink_seq,     \* sink: seq_number of the thread (the number seen last)
  sinkPcm,      \* sink: the PCM is open (t->a2dp.pcm.fd != -1)
  sinkFresh,    \* sink: no packet was looked at since the start or the closed PCM
  sinkLast,     \* sink: what was done with the last packet
  sinkN,        \* sink: packets received so far
  roFd,         \* re-open: pcm->fd of every endpoint: NoFd or a session
  roSess,       \* re-open: the sessions, as in sess
  roOpens,      \* re-open: number of sessions created so far
  roSigs,       \* re-open: the signals sent, with pcm->fd at that moment
  roLast,       \* re-open: the last end-of-file of a control channel
  paPc,         \* pause: the source thread: "none" | "top" | "poll" | "woken" | "read" | "write"
  paPfd,        \* pause: the PCM takes part in the current poll()
  paRevents,    \* pause: what poll() reported: [sig, pcm]
  paData,       \* pause: PCM chunks queued in the FIFO
  paAck,        \* pause: "OK" was sent for a Pause and no Resume was handled since
  paLast,       \* pause: the last transfer of the thread: [op, paused]
  paCmds,       \* pause: controller commands handled so far
  paWritten,    \* pause: chunks written by the client so far
  rgLog,        \* bus: the register and unregister calls so far, oldest first
  hfpCall,      \* SCO: a call or a call setup is going on (rfcomm.hfp_inds)
  elem_list,    \* mixer: ctl->elem_list; its length is ctl->elem_list_size
  mxLast,       \* mixer: the last callback: key, size then, result, access
  pcm_mixer,    \* aplay: pcm_mixer (FALSE: single-audio mode)
  ba_pcms,      \* aplay: the paths in ba_pcms, in list order
  workers,      \* aplay: the workers array, slot by slot
  workers_count, \* aplay: workers_count
  workers_size, \* aplay: workers_size
  wBlock,       \* aplay: the allocation workers points to (0: NULL)
  wk,           \* aplay: per worker thread: pc, its PCM path, its arg w
  nStarts,      \* aplay: number of threads created so far
  apLast        \* aplay: what the last bus signal handled did

cfgVars == <<profile, codec, keep_alive>>
lifeVars == <<ba_dbus_id, events, refs, thread, running, nCreate, createRet>>
rtpVars == <<seq_number, hdr_seq, packets, aacLeft, rtpPc>>
sbcVars == <<sbcCfg, pcmLen, sbcPkt, sbcEvt, sbcPc>>
aacVars == <<aacFrame, aacLen, aacOff, aacTs, aacHdrTs, aacFrags, aacN, aacPc>>
volVars == <<a2dp_volume, ch1_volume, ch1_muted, volFlow, volIn, volOut, volN>>
h2Vars == <<h2Data, h2Res, h2Pc>>
batchVars == <<bFlow, bIn, bPasses, bLast, bPc>>
markVars == <<markbit_quirk, mPcm, mSeen, mLatm, mLast>>
thrVars == <<thFlow, thPc, cancelstate, lockCount, locked, stack, cancelReq, cleanupLock, thWay>>
seqVars == <<sink_seq, sinkPcm, sinkFresh, sinkLast, sinkN>>
reopenVars == <<roFd, roSess, roOpens, roSigs, roLast>>
pauseVars == <<paPc, paPfd, paRevents, paData, paAck, paLast, paCmds, paWritten>>
regVars == <<rgLog>>
callVars == <<hfpCall>>
mixVars == <<elem_list, mxLast>>
aplayVars == <<pcm_mixer, ba_pcms, workers, workers_count, workers_size, wBlock,
               wk, nStarts, apLast>>
tailVars == <<regVars, callVars, mixVars, aplayVars>>
lateVars == <<seqVars, reopenVars, pauseVars, tailVars>>
flowVars == <<sbcVars, aacVars, volVars, h2Vars, batchVars, markVars, thrVars, lateVars>>
pcmVars == <<pcmFd, nOpens, sess, written>>
sigVars == <<sigq, nextId, lastId>>
ctlVars == <<ctlPc, drainReq, last>>
ioVars == <<ioPc, poll_timeout, pfds, ioEvt, btFd, scoOut, scoIn>>
vars == <<cfgVars, state, pcmVars, sigVars, ctlVars, ioVars, lifeVars, rtpVars, flowVars>>

(***************************************************************************)
(* Helpers.                                                                *)
(***************************************************************************)
NoOp == [op |-> "none", arg |-> <<>>, res |-> "", ep |-> "none", log |-> <<>>]

\* What one loop iteration of the I/O thread did: how poll() returned
\* (kind), the signal read, the outcome of the PCM read, whether the drained
\* condition was signalled (with the PCM still queued and the poll timeout
\* in force at that moment), whether a packet went to the BT socket, and how
\* the write to the BT socket ended in an A2DP source loop (bt).
NoEvt == [kind |-> "none", sig |-> "none", read |-> "none", drained |-> FALSE,
          queued |-> 0, timeout |-> NoTimeout, wrote |-> FALSE, bt |-> "none"]

\* struct pollfd pfds[]: the descriptors of the current poll(), and the
\* transport state the thread read when it filled them in ("unread" if it
\* did not look at the state).
NoPfds == [pcm_in |-> NoFd, pcm_out |-> NoFd, bt_in |-> NoFd, bt_out |-> NoFd,
           st |-> "unread"]

\* ba_transport_send_signal: a write of one signal to t->sig_fd[1].
SigWrite(q, id, s) == Append(q, [sig |-> s, id |-> id])

(***************************************************************************)
(* Sessions.  sess[n].ep   : the endpoint the Open was for (cdata->pcm),   *)
(*            sess[n].int  : the daemon's (internal) pipe end is open,     *)
(*            sess[n].cli  : the client still holds its pipe end,          *)
(*            sess[n].ctl  : the control-channel watch is installed,       *)
(*            sess[n].data : PCM chunks queued in the pipe.                *)
(***************************************************************************)
NoSess == [ep |-> "none", int |-> FALSE, cli |-> FALSE, ctl |-> FALSE, data |-> 0]

\* close(fd) on the internal pipe end of session fd (a no-op on NoFd).
CloseInt(ss, fd) ==
  IF fd \in DOMAIN ss THEN [ss EXCEPT ![fd].int = FALSE] ELSE ss

\* ba_transport_release_pcm(pcm): close pcm->fd and set it to -1.
ReleaseFds(fds, ep) == [fds EXCEPT ![ep] = NoFd]
ReleaseSess(ss, fds, ep) == CloseInt(ss, fds[ep])

\* Endpoints whose pipe carries PCM from the client to the daemon.
IsSourceEp(ep) == ep \in {"spk"} \/ (ep = "a2dp" /\ profile = A2DP_SOURCE)

(***************************************************************************)
(* bluealsa_pcm_open (bluealsa-dbus.c:210-312).                            *)
(***************************************************************************)
ModeSource == "source"            \* BLUEALSA_PCM_MODE_SOURCE
ModeSink == "sink"                \* BLUEALSA_PCM_MODE_SINK
Modes == {ModeSource, ModeSink, "Source", ""}

\* Lines 227-245: the endpoint the mode selects, "none" for pcm == NULL.
OpenEndpoint(p, mode) ==
  IF (mode = ModeSource /\ p = A2DP_SOURCE) \/ (mode # ModeSource /\ p = A2DP_SINK)
    THEN "a2dp"
  ELSE IF IsSco(p) THEN (IF mode = ModeSource THEN "spk" ELSE "mic")
  ELSE "none"

\* A faulty variant of the checks: the HFP codec is not looked at.
OpenCheckNoCodec(p, c, mode, fds) ==
  IF mode # ModeSource /\ mode # ModeSink THEN "INVALID_ARGS"
  ELSE IF OpenEndpoint(p, mode) = "none" THEN "NOT_SUPPORTED"
  ELSE IF fds[OpenEndpoint(p, mode)] # NoFd THEN "FAILED_EBUSY"
  ELSE "proceed"

\* Lines 220-257: the checks made before any descriptor is created.
OpenCheck(p, c, mode, fds) ==
  IF mode # ModeSource /\ mode # ModeSink THEN "INVALID_ARGS"
  ELSE IF OpenEndpoint(p, mode) # "a2dp" /\ IsSco(p) /\ c = "UNDEFINED"
    THEN "FAILED_CODEC"
  ELSE IF OpenEndpoint(p, mode) = "none" THEN "NOT_SUPPORTED"
  ELSE IF fds[OpenEndpoint(p, mode)] # NoFd THEN "FAILED_EBUSY"
  ELSE "proceed"

\* A faulty variant: acquire is called for every A2DP profile.
OpenAcquiresAnyA2dp(p) == p \in {A2DP_SOURCE, A2DP_SINK}

\* Line 284: acquire is called for the A2DP source profile only.
OpenAcquires(p) == p = A2DP_SOURCE

\* What the environment does to an Open that passed the checks.
OpenEnvs == {"ok", "pipe_fail", "fcntl_fail", "acquire_fail"}

\* Lines 259-305: the effects of an Open that passed the checks, in order.
OpenLog(p, env) ==
  IF env = "pipe_fail" THEN <<"error">>
  ELSE IF env = "fcntl_fail" THEN <<"pipe", "store_fd", "error", "close_fds">>
  ELSE <<"pipe", "store_fd", "sig:PCM_OPEN">>
       \o (IF OpenAcquires(p) THEN <<"acquire">> ELSE <<>>)
       \o (IF OpenAcquires(p) /\ env = "acquire_fail"
             THEN <<"error", "close_fds">>
             ELSE <<"watch", "return_fds">>)

OpenRes(p, env) ==
  IF env = "pipe_fail" THEN "FAILED_PIPE"
  ELSE IF env = "fcntl_fail" THEN "FAILED_SETUP"
  ELSE IF OpenAcquires(p) /\ env = "acquire_fail" THEN "FAILED_ACQUIRE"
  ELSE "fds"

\* A faulty variant of the refusal: the "fail" path also closes the endpoint
\* the request was for.
PcmOpenRefusedClosing(mode) ==
  LET ep == OpenEndpoint(profile, mode) IN
  /\ ctlPc = "idle"
  /\ OpenCheck(profile, codec, mode, pcmFd) # "proceed"
  /\ last' = [op |-> "Open", arg |-> <<mode>>,
              res |-> OpenCheck(profile, codec, mode, pcmFd),
              ep |-> "none", log |-> <<"error">>]
  /\ pcmFd' = IF ep # "none" THEN ReleaseFds(pcmFd, ep) ELSE pcmFd
  /\ UNCHANGED <<cfgVars, flowVars, lifeVars, rtpVars, state, nOpens, sess, written, sigVars, ctlPc,
                 drainReq, ioVars>>

\* An Open that is refused before any descriptor exists: "goto fail" with
\* pcm_fds all -1.
PcmOpenRefused(mode) ==
  /\ ctlPc = "idle"
  /\ OpenCheck(profile, codec, mode, pcmFd) # "proceed"
  /\ last' = [op |-> "Open", arg |-> <<mode>>,
              res |-> OpenCheck(profile, codec, mode, pcmFd),
              ep |-> "none", log |-> <<"error">>]
  /\ UNCHANGED <<cfgVars, flowVars, lifeVars, rtpVars, state, pcmVars, sigVars, ctlPc, drainReq, ioVars>>

\* An Open that passed the checks.
PcmOpenProceed(mode, env) ==
  LET ep == OpenEndpoint(profile, mode)
      n == nOpens + 1
      lg == OpenLog(profile, env)
      has(x) == \E i \in 1..Len(lg) : lg[i] = x
  IN
  /\ ctlPc = "idle"
  /\ OpenCheck(profile, codec, mode, pcmFd) = "proceed"
  /\ nOpens < MaxOpens
  /\ has("sig:PCM_OPEN") => nextId <= MaxSent
  /\ last' = [op |-> "Open", arg |-> <<mode>>, res |-> OpenRes(profile, env),
              ep |-> ep, log |-> lg]
  /\ IF has("pipe")
       THEN /\ nOpens' = n
            /\ sess' = [sess EXCEPT ![n] =
                  [ep |-> ep, int |-> ~has("close_fds"),
                   cli |-> has("return_fds"), ctl |-> has("watch"), data |-> 0]]
       ELSE UNCHANGED <<nOpens, sess>>
  /\ pcmFd' = IF has("store_fd") THEN [pcmFd EXCEPT ![ep] = n] ELSE pcmFd
  /\ IF has("sig:PCM_OPEN")
       THEN /\ sigq' = SigWrite(sigq, nextId, "PCM_OPEN")
            /\ nextId' = nextId + 1
       ELSE UNCHANGED <<sigq, nextId>>
  /\ btFd' = IF has("acquire") /\ env # "acquire_fail" THEN 1 ELSE btFd
  /\ UNCHANGED <<cfgVars, flowVars, lifeVars, rtpVars, state, written, lastId, ctlPc, drainReq,
                 ioPc, poll_timeout, pfds, ioEvt, scoOut, scoIn>>

(***************************************************************************)
(* The PCM control channel: bluealsa_pcm_controller                        *)
(* (bluealsa-dbus.c:161-208).  A frame is the sequence of its bytes; "NUL" *)
(* stands for a zero byte.                                                 *)
(***************************************************************************)
CtrlDrain == <<"D", "r", "a", "i", "n">>         \* BLUEALSA_PCM_CTRL_DRAIN
CtrlDrop == <<"D", "r", "o", "p">>               \* BLUEALSA_PCM_CTRL_DROP
CtrlPause == <<"P", "a", "u", "s", "e">>         \* BLUEALSA_PCM_CTRL_PAUSE
CtrlResume == <<"R", "e", "s", "u", "m", "e">>   \* BLUEALSA_PCM_CTRL_RESUME
Keywords == {CtrlDrain, CtrlDrop, CtrlPause, CtrlResume}

\* The frames a client sends in the model.
Frames == Keywords \cup
  { <<"X", "y", "z", "z", "y">>,
    <<"D">>,
    <<"D", "r", "a", "i", "n", "X">>,
    <<"R", "e", "s", "u", "m", "e", "NUL", "x">> }

\* strncmp(a, kw, n) == 0 for a buffer a holding n received bytes and a
\* NUL-terminated keyword kw: bytes are compared up to n, or up to a NUL.
RECURSIVE StrNCmpFrom(_, _, _, _)
StrNCmpFrom(a, kw, i, n) ==
  IF i > n THEN TRUE
  ELSE LET ca == a[i]
           cb == IF i <= Len(kw) THEN kw[i] ELSE "NUL"
       IN IF ca # cb THEN FALSE
          ELSE IF ca = "NUL" THEN TRUE
          ELSE StrNCmpFrom(a, kw, i + 1, n)

StrNCmpEq(a, kw, n) == StrNCmpFrom(a, kw, 1, n)

\* Lines 174-195: the branch taken for a frame of len bytes.
Dispatch(frame) ==
  IF StrNCmpEq(frame, CtrlDrain, Len(frame)) THEN "Drain"
  ELSE IF StrNCmpEq(frame, CtrlDrop, Len(frame)) THEN "Drop"
  ELSE IF StrNCmpEq(frame, CtrlPause, Len(frame)) THEN "Pause"
  ELSE IF StrNCmpEq(frame, CtrlResume, Len(frame)) THEN "Resume"
  ELSE "Invalid"

\* ba_transport_set_state(t, s), as the specification describes it: the
\* state is updated to s.
SetState(cur, s) == s

\* A faulty variant: the reply is written before the signal.
CtrlLogReplyFirst(cmd) ==
  CASE cmd = "Drop" -> <<"reply:OK", "sig:PCM_DROP">>
    [] cmd = "Pause" -> <<"state:PAUSED", "reply:OK", "sig:PCM_PAUSE">>
    [] cmd = "Resume" -> <<"state:ACTIVE", "reply:OK", "sig:PCM_RESUME">>
    [] OTHER -> <<"reply:Invalid">>

\* A faulty variant: Drop also sets the transport state.
CtrlLogDropPauses(cmd) ==
  CASE cmd = "Drop" -> <<"state:PAUSED", "sig:PCM_DROP", "reply:OK">>
    [] cmd = "Pause" -> <<"state:PAUSED", "sig:PCM_PAUSE", "reply:OK">>
    [] cmd = "Resume" -> <<"state:ACTIVE", "sig:PCM_RESUME", "reply:OK">>
    [] OTHER -> <<"reply:Invalid">>

\* Lines 178-195: the effects of a command other than Drain, in order.
CtrlLog(cmd) ==
  CASE cmd = "Drop" -> <<"sig:PCM_DROP", "reply:OK">>
    [] cmd = "Pause" -> <<"state:PAUSED", "sig:PCM_PAUSE", "reply:OK">>
    [] cmd = "Resume" -> <<"state:ACTIVE", "sig:PCM_RESUME", "reply:OK">>
    [] OTHER -> <<"reply:Invalid">>

\* Lines 174-177: the effects of Drain up to the wait inside
\* ba_transport_drain_pcm, and those after it has returned.
DrainLogEnter == <<"sig:PCM_SYNC", "drain:wait">>
DrainLogReturn(why) == <<why, "reply:OK">>

LogHas(lg, x) == \E i \in 1..Len(lg) : lg[i] = x

\* The signal a log entry writes, "none" if it writes none.
LogSignal(lg) ==
  IF \E s \in Signals : LogHas(lg, "sig:" \o s)
    THEN CHOOSE s \in Signals : LogHas(lg, "sig:" \o s)
    ELSE "none"

\* G_IO_STATUS_NORMAL with a frame that does not start a drain.
PcmControllerCmd(n, frame) ==
  LET cmd == Dispatch(frame)
      lg == CtrlLog(cmd)
      sg == LogSignal(lg)
  IN
  /\ ctlPc = "idle"
  /\ sess[n].ctl
  /\ cmd # "Drain"
  /\ sg # "none" => nextId <= MaxSent
  /\ state' = IF LogHas(lg, "state:PAUSED") THEN SetState(state, "PAUSED")
              ELSE IF LogHas(lg, "state:ACTIVE") THEN SetState(state, "ACTIVE")
              ELSE state
  /\ IF sg # "none"
       THEN /\ sigq' = SigWrite(sigq, nextId, sg)
            /\ nextId' = nextId + 1
       ELSE UNCHANGED <<sigq, nextId>>
  /\ last' = [op |-> "Ctrl", arg |-> frame, res |-> cmd, ep |-> sess[n].ep,
              log |-> lg]
  /\ UNCHANGED <<cfgVars, flowVars, lifeVars, rtpVars, pcmVars, lastId, ctlPc, drainReq, ioVars>>

\* G_IO_STATUS_NORMAL with a frame taken for Drain: ba_transport_drain_pcm
\* writes PCM_SYNC and waits on the drained condition.
PcmControllerDrain(n, frame) ==
  /\ ctlPc = "idle"
  /\ sess[n].ctl
  /\ Dispatch(frame) = "Drain"
  /\ nextId <= MaxSent
  /\ sigq' = SigWrite(sigq, nextId, "PCM_SYNC")
  /\ nextId' = nextId + 1
  /\ ctlPc' = "draining"
  /\ drainReq' = "pending"
  /\ last' = [op |-> "Ctrl", arg |-> frame, res |-> "waiting", ep |-> sess[n].ep,
              log |-> DrainLogEnter]
  /\ UNCHANGED <<cfgVars, flowVars, lifeVars, rtpVars, state, pcmVars, lastId, ioVars>>

\* ba_transport_drain_pcm returns: the condition was signalled, or the wait
\* timed out.  The controller then writes "OK".
DrainReturn ==
  /\ ctlPc = "draining"
  /\ ctlPc' = "idle"
  /\ last' = [last EXCEPT
       !.res = "Drain",
       !.log = @ \o DrainLogReturn(IF drainReq = "signalled"
                                     THEN "drain:signalled" ELSE "drain:timeout")]
  /\ UNCHANGED <<cfgVars, flowVars, lifeVars, rtpVars, state, pcmVars, sigVars, drainReq, ioVars>>

\* G_IO_STATUS_EOF (lines 200-204): the client closed the control channel.
PcmControllerEOF(n) ==
  LET ep == sess[n].ep IN
  /\ ctlPc = "idle"
  /\ sess[n].ctl
  /\ nextId <= MaxSent
  /\ pcmFd' = ReleaseFds(pcmFd, ep)
  /\ sess' = [ReleaseSess(sess, pcmFd, ep) EXCEPT ![n].ctl = FALSE]
  /\ sigq' = SigWrite(sigq, nextId, "PCM_CLOSE")
  /\ nextId' = nextId + 1
  /\ last' = [op |-> "CtrlEOF", arg |-> <<>>, res |-> "closed", ep |-> ep,
              log |-> <<"release_pcm", "sig:PCM_CLOSE", "unwatch">>]
  /\ UNCHANGED <<cfgVars, flowVars, lifeVars, rtpVars, state, nOpens, written, lastId, ctlPc, drainReq, ioVars>>

(***************************************************************************)
(* The client of a session.                                                *)
(***************************************************************************)
\* write() of one chunk of PCM into the pipe of a playback session.
ClientWrite(n) ==
  /\ sess[n].cli /\ sess[n].int
  /\ IsSourceEp(sess[n].ep)
  /\ written < MaxData
  /\ written' = written + 1
  /\ sess' = [sess EXCEPT ![n].data = @ + 1]
  /\ UNCHANGED <<cfgVars, flowVars, lifeVars, rtpVars, state, pcmFd, nOpens, sigVars, ctlVars, ioVars>>

\* close() of the client's end of the PCM pipe.
ClientClose(n) ==
  /\ sess[n].cli
  /\ sess' = [sess EXCEPT ![n].cli = FALSE]
  /\ UNCHANGED <<cfgVars, flowVars, lifeVars, rtpVars, state, pcmFd, nOpens, written, sigVars, ctlVars, ioVars>>

(***************************************************************************)
(* The I/O threads (io.c).  A loop iteration is two steps: the thread      *)
(* fills in pfds[] from the state it reads at the top of the loop and      *)
(* enters poll(); poll() returns and the thread handles what is ready.     *)
(***************************************************************************)
\* pthread_cond_signal(&drained): a pending drain request is signalled.
CondSignal(req) == IF req = "pending" THEN "signalled" ELSE req

\* The cleanup handler ba_transport_pthread_cleanup releases the transport:
\* the BT socket is closed.
PthreadCleanup(bt) == NoFd

\* A faulty variant: the descriptor is polled whatever the state.
GateFdAlways(st, fd) == fd

\* pfds[1].fd = t->state == TRANSPORT_ACTIVE ? fd : -1  (io.c:273, 442)
GateFd(st, fd) == IF st = "ACTIVE" THEN fd ELSE NoFd

\* io.c:1592-1626 (CVSD branch): the SCO loop fills pfds[] from the buffer
\* levels and the endpoint descriptors; it does not read t->state.
ScoBufChunks == 2                 \* 128-byte buffers hold two MTU-sized chunks

ScoPfds(fds, bt, out, in) ==
  [pcm_in |-> IF out < ScoBufChunks THEN fds["spk"] ELSE NoFd,
   pcm_out |-> IF in > 0 THEN fds["mic"] ELSE NoFd,
   bt_in |-> IF in < ScoBufChunks /\ fds["mic"] # NoFd THEN bt ELSE NoFd,
   bt_out |-> IF out > 0 THEN bt ELSE NoFd,
   st |-> "unread"]

\* The pfds[] of the next poll(), by thread routine.
PollFds(p, st, fds, bt, out, in) ==
  CASE p = A2DP_SOURCE -> [NoPfds EXCEPT !.pcm_in = GateFd(st, fds["a2dp"]), !.st = st]
    [] p = A2DP_SINK -> [NoPfds EXCEPT !.bt_in = GateFd(st, bt), !.st = st]
    [] OTHER -> ScoPfds(fds, bt, out, in)

\* A faulty variant: the signal pipe is never looked at.
SigNeverReady == FALSE

\* poll() readiness of the entries of pfds[].
SigReady == sigq # <<>>
PcmInReady(fd) ==
  /\ fd # NoFd
  /\ \/ ~sess[fd].int          \* POLLNVAL: the descriptor was closed
     \/ sess[fd].data > 0      \* POLLIN
     \/ ~sess[fd].cli          \* POLLHUP: the writer is gone
DataReady ==
  \/ PcmInReady(pfds.pcm_in)
  \/ pfds.pcm_out # NoFd
  \/ pfds.bt_in # NoFd
  \/ pfds.bt_out # NoFd

\* Top of the loop: fill in pfds[] and enter poll().
IoTop ==
  /\ ioPc = "top"
  /\ ioPc' = "poll"
  /\ pfds' = PollFds(profile, state, pcmFd, btFd, scoOut, scoIn)
  /\ UNCHANGED <<cfgVars, flowVars, lifeVars, rtpVars, state, pcmVars, sigVars, ctlVars, poll_timeout, ioEvt,
                 btFd, scoOut, scoIn>>

\* io_thread_read_pcm (io.c:76-100): what read(pcm->fd) yields.
ReadOutcome(ss, fds, ep) ==
  IF fds[ep] = NoFd \/ ~ss[fds[ep]].int THEN "ebadf"
  ELSE IF ss[fds[ep]].data > 0 THEN "data"
  ELSE IF ~ss[fds[ep]].cli THEN "eof"
  ELSE "eagain"

\* A faulty variant: end of file does not release the endpoint.
ReadReleasesEbadfOnly(r) == r = "ebadf"

\* io.c:92-97: the endpoint is released when read() returned 0 or EBADF.
ReadReleases(r) == r \in {"eof", "ebadf"}

\* io.c:488: poll_timeout = config.a2dp.keep_alive * 1000
KeepAliveTimeout(ka) == ka * 1000

\* A faulty variant: PCM_SYNC does not arm the timeout.
SrcSignalTimeoutNoSync(sig, pt) ==
  CASE sig \in {"PCM_OPEN", "PCM_RESUME"} -> NoTimeout
    [] OTHER -> pt

\* io.c:466-483: the poll timeout after a signal was handled in an A2DP
\* source loop.
SrcSignalTimeout(sig, pt) ==
  CASE sig \in {"PCM_OPEN", "PCM_RESUME"} -> NoTimeout
    [] sig = "PCM_SYNC" -> DrainPollTimeout
    [] OTHER -> pt

\* io.c:472-474: the signals after which the source loop goes on to read PCM.
SrcSignalReads(sig) == sig = "PCM_CLOSE"

\* io_thread_read_pcm_flush: the pipe content is spliced to /dev/null.
Flush(ss, fd) ==
  IF fd # NoFd /\ ss[fd].int THEN [ss EXCEPT ![fd].data = 0] ELSE ss

\* Outcomes of a write to the BT socket: written, ECONNRESET/ENOTCONN, or
\* another error.
BtWrites == {"ok", "reset", "err"}
BtWriteRes(bt, bw) == IF bt = NoFd THEN "err" ELSE bw

\* A faulty variant: every failed write ends the loop.
BtWriteFatalAnyError(w) == w # "ok"

\* io.c:556-561: ECONNRESET and ENOTCONN end the loop ("goto fail"), any
\* other error is logged.
BtWriteFatal(w) == w = "reset"

\* io.c:486-580: read PCM, encode, write to the BT socket.  pt is the poll
\* timeout in force before the read, evt the record of the iteration so far.
SrcRead(bw, pt, evt) ==
  LET r == ReadOutcome(sess, pcmFd, "a2dp")
      w == BtWriteRes(btFd, bw)
      gone == r = "data" /\ BtWriteFatal(w)
  IN
  /\ pcmFd' = IF ReadReleases(r) THEN ReleaseFds(pcmFd, "a2dp") ELSE pcmFd
  /\ sess' = IF ReadReleases(r) THEN ReleaseSess(sess, pcmFd, "a2dp")
             ELSE IF r = "data" THEN [sess EXCEPT ![pcmFd["a2dp"]].data = @ - 1]
             ELSE sess
  /\ poll_timeout' = IF ReadReleases(r) THEN KeepAliveTimeout(keep_alive) ELSE pt
  /\ ioPc' = IF gone THEN "exited" ELSE "top"
  /\ btFd' = IF gone THEN PthreadCleanup(btFd) ELSE btFd
  /\ ioEvt' = [evt EXCEPT !.read = r, !.wrote = (r = "data" /\ w = "ok"),
                         !.bt = IF r = "data" THEN w ELSE "none"]

\* A faulty variant: every expired timeout ends the thread.
TimeoutExitsAlways(fd) == TRUE

\* io.c:449-450: if (t->a2dp.pcm.fd == -1) goto final;
TimeoutExits(fd) == fd = NoFd

\* poll() returned 0 in an A2DP source loop (io.c:445-453).
IoSrcTimeout ==
  LET fd == pcmFd["a2dp"] IN
  /\ profile = A2DP_SOURCE
  /\ ioPc = "poll"
  /\ poll_timeout # NoTimeout
  /\ ~SigReady /\ ~DataReady
  /\ drainReq' = CondSignal(drainReq)
  /\ poll_timeout' = NoTimeout
  /\ ioPc' = IF TimeoutExits(fd) THEN "exited" ELSE "top"
  /\ btFd' = IF TimeoutExits(fd) THEN PthreadCleanup(btFd) ELSE btFd
  /\ ioEvt' = [NoEvt EXCEPT !.kind = "timeout", !.drained = TRUE,
                 !.timeout = poll_timeout,
                 !.queued = IF fd # NoFd THEN sess[fd].data ELSE 0]
  /\ UNCHANGED <<cfgVars, flowVars, lifeVars, rtpVars, state, pcmVars, sigVars, ctlPc, last, pfds, scoOut, scoIn>>

\* poll() reported the signal pipe readable in an A2DP source loop
\* (io.c:461-484).
IoSrcSignal(bw) ==
  LET sg == Head(sigq).sig
      evt == [NoEvt EXCEPT !.kind = "signal", !.sig = sg]
  IN
  /\ profile = A2DP_SOURCE
  /\ ioPc = "poll"
  /\ SigReady
  /\ sigq' = Tail(sigq)
  /\ lastId' = Head(sigq).id
  /\ IF SrcSignalReads(sg)
       THEN SrcRead(bw, SrcSignalTimeout(sg, poll_timeout), evt)
       ELSE /\ poll_timeout' = SrcSignalTimeout(sg, poll_timeout)
            /\ sess' = IF sg = "PCM_DROP" THEN Flush(sess, pcmFd["a2dp"]) ELSE sess
            /\ ioPc' = "top"
            /\ ioEvt' = evt
            /\ UNCHANGED <<pcmFd, btFd>>
  /\ UNCHANGED <<cfgVars, flowVars, lifeVars, rtpVars, state, nOpens, written, nextId, ctlVars, pfds, scoOut, scoIn>>

\* poll() reported only the PCM descriptor in an A2DP source loop.
IoSrcData(bw) ==
  /\ profile = A2DP_SOURCE
  /\ ioPc = "poll"
  /\ ~SigReady /\ DataReady
  /\ SrcRead(bw, poll_timeout, [NoEvt EXCEPT !.kind = "data"])
  /\ UNCHANGED <<cfgVars, flowVars, lifeVars, rtpVars, state, nOpens, written, sigVars, ctlVars, pfds, scoOut, scoIn>>

\* poll() reported the signal pipe readable in an A2DP sink loop
\* (io.c:282-288): the signal is read and the loop continues.
IoSinkSignal ==
  /\ profile = A2DP_SINK
  /\ ioPc = "poll"
  /\ SigReady
  /\ sigq' = Tail(sigq)
  /\ lastId' = Head(sigq).id
  /\ ioPc' = "top"
  /\ ioEvt' = [NoEvt EXCEPT !.kind = "signal", !.sig = Head(sigq).sig]
  /\ UNCHANGED <<cfgVars, flowVars, lifeVars, rtpVars, state, pcmVars, nextId, ctlVars, poll_timeout, pfds,
                 btFd, scoOut, scoIn>>

\* Outcomes of a read from the BT socket: a packet, end of file, an error.
BtReads == {"packet", "eof", "err"}

\* A faulty variant: the socket is left as it is when the peer closed it.
SinkBtFdKept(bt, br) == bt

\* io.c:298-305: read() returned 0: close(pfds[1].fd); t->bt_fd = -1.
SinkBtFd(bt, br) == IF br = "eof" THEN NoFd ELSE bt

\* poll() reported only the BT socket in an A2DP sink loop (io.c:290-352).
IoSinkData(br) ==
  LET fd == pcmFd["a2dp"]
      decode == br = "packet" /\ fd # NoFd
      epipe == decode /\ ~sess[fd].cli
  IN
  /\ profile = A2DP_SINK
  /\ ioPc = "poll"
  /\ ~SigReady /\ DataReady
  /\ ioPc' = IF br = "eof" THEN "exited" ELSE "top"
  /\ btFd' = SinkBtFd(btFd, br)
  /\ pcmFd' = IF epipe THEN ReleaseFds(pcmFd, "a2dp") ELSE pcmFd
  /\ sess' = IF epipe THEN ReleaseSess(sess, pcmFd, "a2dp") ELSE sess
  /\ ioEvt' = [NoEvt EXCEPT !.kind = "data",
                 !.read = IF br = "packet" THEN "bt" ELSE br]
  /\ UNCHANGED <<cfgVars, flowVars, lifeVars, rtpVars, state, nOpens, written, sigVars, ctlVars, poll_timeout,
                 pfds, scoOut, scoIn>>

(***************************************************************************)
(* The SCO loop (io.c:1550-1925), CVSD branch, transport not managed by    *)
(* oFono.                                                                  *)
(***************************************************************************)
\* io.c:1649-1670: the signals after which the loop "continue"s at once.
ScoSignalContinues(sig) == sig = "PCM_DROP"

\* io.c:1656-1664: the signals on which the drained condition is signalled
\* at once.
ScoSignalDrains(sig) == sig = "PCM_SYNC"

ScoReleaseClosedOnly(p, fds, call) ==
  fds["spk"] = NoFd /\ fds["mic"] = NoFd

\* io.c:1682-1691: whether the SCO link is released after a signal.
ScoRelease(p, fds, call) ==
  \/ fds["spk"] = NoFd /\ fds["mic"] = NoFd
  \/ p = HFP_HF /\ ~call

\* poll() reported the signal pipe readable in the SCO loop (io.c:1642-1709).
\* acq: whether t->acquire succeeds; call: a call or call setup is going on.
IoScoSignal(acq, call) ==
  LET sg == Head(sigq).sig
      fd == pcmFd["spk"]
  IN
  /\ IsSco(profile)
  /\ ioPc = "poll"
  /\ SigReady
  /\ sigq' = Tail(sigq)
  /\ lastId' = Head(sigq).id
  /\ ioPc' = "top"
  /\ poll_timeout' = IF sg \in {"PING", "PCM_OPEN", "PCM_RESUME"}
                       THEN NoTimeout ELSE poll_timeout
  /\ drainReq' = IF ScoSignalDrains(sg) THEN CondSignal(drainReq) ELSE drainReq
  /\ sess' = IF sg = "PCM_DROP" THEN Flush(sess, fd) ELSE sess
  /\ btFd' = IF ScoSignalContinues(sg) THEN btFd
             ELSE IF ScoRelease(profile, pcmFd, call) THEN NoFd
             ELSE IF acq THEN 1 ELSE btFd
  /\ ioEvt' = [NoEvt EXCEPT !.kind = "signal", !.sig = sg,
                 !.drained = ScoSignalDrains(sg),
                 !.timeout = poll_timeout,
                 !.queued = scoOut + (IF fd # NoFd THEN sess[fd].data ELSE 0)]
  /\ UNCHANGED <<cfgVars, flowVars, lifeVars, rtpVars, state, pcmFd, nOpens, written, nextId, ctlPc, last,
                 pfds, scoOut, scoIn>>

\* The local state of one pass over pfds[1..4].
ScoPass0 == [bt |-> btFd, in |-> scoIn, out |-> scoOut, fds |-> pcmFd,
             ss |-> sess, closes |-> 0, stop |-> FALSE, read |-> "none",
             wrote |-> FALSE]

\* io.c:1714-1767: incoming SCO data.
ScoBtRead(L, br) ==
  IF pfds.bt_in = NoFd THEN L
  ELSE IF br = "eof" THEN [L EXCEPT !.bt = NoFd, !.stop = TRUE]
  ELSE IF br = "err" THEN [L EXCEPT !.stop = TRUE]
  ELSE [L EXCEPT !.in = (IF L.fds["mic"] = NoFd THEN 0 ELSE @) + 1, !.read = "bt"]

\* io.c:1769-1816: write-out of SCO data.
ScoBtWrite(L, bw) ==
  IF L.stop \/ pfds.bt_out = NoFd THEN L
  ELSE IF bw = "reset" THEN [L EXCEPT !.bt = NoFd, !.stop = TRUE]
  ELSE IF bw = "err" THEN [L EXCEPT !.stop = TRUE]
  ELSE [L EXCEPT !.out = IF @ > 0 THEN @ - 1 ELSE 0, !.wrote = TRUE]

\* io.c:1818-1864: incoming PCM data of the speaker endpoint.
ScoPcmRead(L) ==
  LET pf == pfds.pcm_in
      r == ReadOutcome(L.ss, L.fds, "spk")
  IN
  IF L.stop \/ pf = NoFd \/ ~L.ss[pf].int THEN L
  ELSE IF L.ss[pf].data > 0      \* POLLIN
    THEN IF r = "data"
           THEN [L EXCEPT !.ss[L.fds["spk"]].data = @ - 1, !.out = @ + 1,
                          !.read = r]
         ELSE IF ReadReleases(r)
           THEN [L EXCEPT !.ss = ReleaseSess(L.ss, L.fds, "spk"),
                          !.fds = ReleaseFds(L.fds, "spk"),
                          !.closes = @ + 1, !.stop = TRUE, !.read = r]
         ELSE [L EXCEPT !.stop = TRUE, !.read = r]
  ELSE IF ~L.ss[pf].cli          \* POLLHUP
    THEN [L EXCEPT !.ss = ReleaseSess(L.ss, L.fds, "spk"),
                   !.fds = ReleaseFds(L.fds, "spk"),
                   !.closes = @ + 1, !.read = "hup"]
  ELSE L

\* io.c:1866-1906: write-out of PCM data to the microphone endpoint.
ScoPcmWrite(L) ==
  LET fd == L.fds["mic"] IN
  IF L.stop \/ pfds.pcm_out = NoFd THEN L
  ELSE IF fd = NoFd \/ ~L.ss[fd].int THEN L          \* write error, logged
  ELSE IF ~L.ss[fd].cli                              \* EPIPE
    THEN [L EXCEPT !.ss = ReleaseSess(L.ss, L.fds, "mic"),
                   !.fds = ReleaseFds(L.fds, "mic"),
                   !.closes = @ + 1]
  ELSE [L EXCEPT !.in = 0]

\* ba_transport_send_signal(t, TRANSPORT_PCM_CLOSE), k times.
RECURSIVE SigWriteCloses(_, _, _)
SigWriteCloses(q, id, k) ==
  IF k = 0 THEN q ELSE SigWriteCloses(SigWrite(q, id, "PCM_CLOSE"), id + 1, k - 1)

\* poll() reported descriptors other than the signal pipe in the SCO loop
\* (io.c:1711-1911).
IoScoData(br, bw) ==
  LET L == ScoPcmWrite(ScoPcmRead(ScoBtWrite(ScoBtRead(ScoPass0, br), bw))) IN
  /\ IsSco(profile)
  /\ ioPc = "poll"
  /\ ~SigReady /\ DataReady
  /\ nextId + L.closes - 1 <= MaxSent
  /\ ioPc' = "top"
  /\ btFd' = L.bt
  /\ scoIn' = L.in
  /\ scoOut' = L.out
  /\ pcmFd' = L.fds
  /\ sess' = L.ss
  /\ sigq' = SigWriteCloses(sigq, nextId, L.closes)
  /\ nextId' = nextId + L.closes
  /\ ioEvt' = [NoEvt EXCEPT !.kind = "data", !.read = L.read, !.wrote = L.wrote]
  /\ UNCHANGED <<cfgVars, flowVars, lifeVars, rtpVars, state, nOpens, written, lastId, ctlVars, poll_timeout, pfds>>

(***************************************************************************)
(* The transport on the bus (bluealsa-dbus.c:450-538) and the creation of  *)
(* its I/O thread (io.c:2004-2070).  The callers of these functions are    *)
(* not part of the sources: the functions are called in any order, on a    *)
(* transport that still exists (refs > 0).                                 *)
(***************************************************************************)
MaxEvents == 3
MaxCreates == 2
MaxRefs == 4

\* The codecs a transport may have been configured with.
LifeCodecs(p) ==
  IF p \in {A2DP_SOURCE, A2DP_SINK} THEN {"SBC", "MPEG12", "LDAC"} ELSE Codecs(p)

\* The property sets an update may select (mask).
UpdateMasks == {{}, {"Volume"}}

\* g_dbus_connection_emit_signal for the transport's path.
Emit(evs, sig, props) == Append(evs, [sig |-> sig, props |-> props])

\* ba_transport_ref / ba_transport_unref on the transport.
TransportRef(n) == n + 1
TransportUnref(n) == n - 1

\* bluealsa-dbus.c:478-490: PCMAdded goes out whatever the registration
\* returned.
RegisterEmits(evs, id) ==
  Emit(evs, "PCMAdded", {"Device", "Modes", "Channels", "Sampling",
                         "Codec", "Delay", "Volume"})

\* bluealsa_dbus_transport_register(t): the object is exported (id 0 when
\* the export failed) with a new reference as its user data, PCMAdded is
\* emitted.
DbusRegister(ok) ==
  LET id == IF ok THEN 1 ELSE 0 IN
  /\ profile # RFCOMM
  /\ refs > 0
  /\ Len(events) < MaxEvents
  /\ ba_dbus_id' = id
  /\ refs' = TransportRef(refs)
  /\ events' = RegisterEmits(events, id)
  /\ UNCHANGED <<cfgVars, flowVars, state, pcmVars, sigVars, ctlVars, ioVars, rtpVars,
                 thread, running, nCreate, createRet>>

\* bluealsa-dbus.c:462-475: the RFCOMM transport r = t->sco.rfcomm is
\* exported while its SCO transport t is registered; no signal names r.
DbusRegisterRfcomm(ok) ==
  /\ profile = RFCOMM
  /\ refs > 0
  /\ refs < MaxRefs
  /\ ba_dbus_id' = IF ok THEN 1 ELSE 0
  /\ refs' = TransportRef(refs)
  /\ UNCHANGED <<cfgVars, flowVars, state, pcmVars, sigVars, ctlVars, ioVars, rtpVars,
                 events, thread, running, nCreate, createRet>>

\* bluealsa_dbus_transport_update(t, mask): PropertiesChanged is emitted on
\* t->ba_dbus_path; t->ba_dbus_id is not looked at.
DbusUpdate(mask) ==
  /\ refs > 0
  /\ Len(events) < MaxEvents
  /\ events' = Emit(events, "PropertiesChanged", mask)
  /\ UNCHANGED <<cfgVars, flowVars, state, pcmVars, sigVars, ctlVars, ioVars, rtpVars,
                 ba_dbus_id, refs, thread, running, nCreate, createRet>>

\* bluealsa-dbus.c:528-530: no "removed" signal for an RFCOMM transport.
UnregisterEmits(p) == p # RFCOMM

\* bluealsa_dbus_transport_unregister(t).
DbusUnregister ==
  /\ refs > 0
  /\ \/ /\ ba_dbus_id = 0
        /\ UNCHANGED <<ba_dbus_id, events, refs>>
     \/ /\ ba_dbus_id # 0
        /\ Len(events) < MaxEvents
        /\ ba_dbus_id' = 0
        /\ events' = IF UnregisterEmits(profile)
                       THEN Emit(events, "PCMRemoved", {}) ELSE events
        /\ refs' = TransportUnref(refs)
  /\ UNCHANGED <<cfgVars, flowVars, state, pcmVars, sigVars, ctlVars, ioVars, rtpVars,
                 thread, running, nCreate, createRet>>

\* io.c:2009-2056: the thread routine by profile and codec ("NULL": none).
Routine(p, c) ==
  CASE p = RFCOMM -> "rfcomm_thread"
    [] IsSco(p) -> "io_thread_sco"
    [] p = A2DP_SOURCE /\ c = "SBC" -> "io_thread_a2dp_source_sbc"
    [] p = A2DP_SOURCE /\ c = "AAC" -> "io_thread_a2dp_source_aac"
    [] p = A2DP_SOURCE /\ c = "APTX" -> "io_thread_a2dp_source_aptx"
    [] p = A2DP_SOURCE /\ c = "LDAC" -> "io_thread_a2dp_source_ldac"
    [] p = A2DP_SINK /\ c = "SBC" -> "io_thread_a2dp_sink_sbc"
    [] p = A2DP_SINK /\ c = "AAC" -> "io_thread_a2dp_sink_aac"
    [] OTHER -> "NULL"

\* A faulty variant: the reference taken for the thread is kept when
\* pthread_create failed.
CreateFailedRefsKept(n) == n

\* io.c:2063: ba_transport_unref(t) after pthread_create failed.
CreateFailedRefs(n) == TransportUnref(n)

\* io_thread_create(t); ok: whether pthread_create succeeds.  The new
\* thread's id is the number of the call.
IoThreadCreate(ok) ==
  LET id == nCreate + 1
      taken == TransportRef(refs)
  IN
  /\ refs > 0
  /\ nCreate < MaxCreates
  /\ nCreate' = id
  /\ IF Routine(profile, codec) = "NULL"
       THEN /\ createRet' = -1
            /\ UNCHANGED <<refs, thread, running>>
     ELSE IF ok
       THEN /\ refs' = taken
            /\ thread' = id
            /\ running' = running \cup {id}
            /\ createRet' = 0
     ELSE /\ refs' = CreateFailedRefs(taken)
          /\ thread' = "main"
          /\ UNCHANGED running
          /\ createRet' = -1
  /\ UNCHANGED <<cfgVars, flowVars, state, pcmVars, sigVars, ctlVars, ioVars, rtpVars,
                 ba_dbus_id, events>>

\* The thread routine returns: the reference it was started with is dropped.
\* Whether t->thread is set back to the main thread's handle is not in the
\* sources: both outcomes are allowed (reset).
IoThreadReturn(i, reset) ==
  /\ refs > 0
  /\ i \in running
  /\ running' = running \ {i}
  /\ refs' = TransportUnref(refs)
  /\ thread' = IF reset THEN "main" ELSE thread
  /\ UNCHANGED <<cfgVars, flowVars, state, pcmVars, sigVars, ctlVars, ioVars, rtpVars,
                 ba_dbus_id, events, nCreate, createRet>>

(***************************************************************************)
(* The specification.                                                      *)
(***************************************************************************)
KeepAlives(p) == IF p = A2DP_SOURCE THEN {0, 1} ELSE {0}

\* The states the transport may be in when the first client arrives; PAUSED
\* is entered by the controller only.
InitStates == {"IDLE", "ACTIVE"}

\* The data plane before the first client arrives.
PlaneInit ==
  /\ pcmFd = [e \in Endpoints |-> NoFd]
  /\ nOpens = 0
  /\ sess = [n \in Sessions |-> NoSess]
  /\ written = 0
  /\ sigq = <<>>
  /\ nextId = 1
  /\ lastId = 0
  /\ ctlPc = "idle"
  /\ drainReq = "none"
  /\ last = NoOp
  /\ poll_timeout = NoTimeout
  /\ pfds = NoPfds
  /\ ioEvt = NoEvt
  /\ scoOut = 0
  /\ scoIn = 0

DataInit ==
  /\ state \in InitStates
  /\ ioPc = IF profile = RFCOMM THEN "none" ELSE "top"
  /\ btFd = IF profile = A2DP_SINK THEN 1 ELSE NoFd
  /\ PlaneInit

\* The transport was registered on the bus and its thread was started: the
\* references are the owner's, the exported object's and the thread's.
LifeRunning ==
  /\ ba_dbus_id = 1
  /\ events = RegisterEmits(<<>>, 1)
  /\ refs = 3
  /\ thread = 1
  /\ running = {1}
  /\ nCreate = 1
  /\ createRet = 0

\* No RTP packet was built yet.
RtpIdle ==
  /\ seq_number = 0
  /\ hdr_seq = 0
  /\ packets = <<>>
  /\ aacLeft = 0
  /\ rtpPc = "none"

\* No SBC batch was encoded yet.
NoPkt == [len |-> 0, hdr |-> 0, frames |-> 0, frame_count |-> 0, seq |-> 0]
NoSbcEvt == [read |-> 0, frames |-> 0, err |-> FALSE, wrote |-> FALSE,
             left |-> 0, released |-> FALSE]
SbcIdle ==
  /\ sbcCfg = [mtu |-> 0, frame_len |-> 0, codesize |-> 0]
  /\ pcmLen = 0
  /\ sbcPkt = NoPkt
  /\ sbcEvt = NoSbcEvt
  /\ sbcPc = "none"

\* No AAC frame was encoded yet.
AacIdle ==
  /\ aacFrame = 0
  /\ aacLen = 0
  /\ aacOff = 0
  /\ aacTs = 0
  /\ aacHdrTs = 0
  /\ aacFrags = <<>>
  /\ aacN = 0
  /\ aacPc = "none"

\* bluealsa.c:59: the volume is not forwarded; no batch was handled.
VolIdle ==
  /\ a2dp_volume = FALSE
  /\ ch1_volume = 127
  /\ ch1_muted = FALSE
  /\ volFlow = "none"
  /\ volIn = 0
  /\ volOut = 0
  /\ volN = 0

\* Nothing is scanned for an H2 header; NoOffset stands for NULL.
NoOffset == -1
H2Idle ==
  /\ h2Data = <<>>
  /\ h2Res = [ptr |-> NoOffset, len |-> 0]
  /\ h2Pc = "none"

\* No encode loop is looked at.
BatchIdle ==
  /\ bFlow = "none"
  /\ bIn = 0
  /\ bPasses = 0
  /\ bLast = [err |-> FALSE, bw |-> "none", took |-> 0]
  /\ bPc = "none"

\* No packet came to an AAC sink.
MarkIdle ==
  /\ markbit_quirk = 0
  /\ mPcm = FALSE
  /\ mSeen = <<>>
  /\ mLatm = 0
  /\ mLast = [markbit |-> FALSE, decoded |-> FALSE, handled |-> FALSE]

\* No thread is followed through its routine.
ThrIdle ==
  /\ thFlow = "none"
  /\ thPc = "none"
  /\ cancelstate = "enable"
  /\ lockCount = 0
  /\ locked = FALSE
  /\ stack = <<>>
  /\ cancelReq = FALSE
  /\ cleanupLock = -1
  /\ thWay = "none"

\* No packet of a sink is followed.
NoSinkPacket ==
  [recv |-> 0, expected |-> 0, fresh |-> FALSE, warned |-> FALSE, decoded |-> FALSE,
   handled |-> FALSE]
SeqIdle ==
  /\ sink_seq = 0
  /\ sinkPcm = FALSE
  /\ sinkFresh = FALSE
  /\ sinkLast = NoSinkPacket
  /\ sinkN = 0

\* No session is followed through a re-open.
NoCtlEof == [n |-> 0, fd |-> NoFd]
ReopenIdle ==
  /\ roFd = [ep \in Endpoints |-> NoFd]
  /\ roSess = <<>>
  /\ roOpens = 0
  /\ roSigs = <<>>
  /\ roLast = NoCtlEof

\* No source thread is followed through a pause.
NoRevents == [sig |-> FALSE, pcm |-> FALSE]
NoTransfer == [op |-> "none", paused |-> FALSE]
PauseIdle ==
  /\ paPc = "none"
  /\ paPfd = FALSE
  /\ paRevents = NoRevents
  /\ paData = 0
  /\ paAck = FALSE
  /\ paLast = NoTransfer
  /\ paCmds = 0
  /\ paWritten = 0

\* No register or unregister call is followed.
RegIdle == rgLog = <<>>

\* A call is going on for the whole run.
CallIdle == hfpCall = TRUE

\* No mixer callback was called on an empty element list.
NoCallback == [cb |-> "none", key |-> 0, size |-> 0, ret |-> "", accessed |-> FALSE]
MixIdle ==
  /\ elem_list = <<>>
  /\ mxLast = NoCallback

\* bluealsa-aplay has no PCM and no worker.
NoSignal ==
  [op |-> "none", known |-> FALSE, deref |-> FALSE, crashed |-> FALSE,
   stopped |-> 0]
AplayIdle ==
  /\ pcm_mixer = TRUE
  /\ ba_pcms = <<>>
  /\ workers = <<>>
  /\ workers_count = 0
  /\ workers_size = 0
  /\ wBlock = 0
  /\ wk = <<>>
  /\ nStarts = 0
  /\ apLast = NoSignal

TailIdle == RegIdle /\ CallIdle /\ MixIdle /\ AplayIdle

LateIdle == SeqIdle /\ ReopenIdle /\ PauseIdle /\ TailIdle

\* The flows that are looked at one by one are not started.
FlowIdle ==
  /\ SbcIdle /\ AacIdle /\ VolIdle /\ H2Idle /\ BatchIdle /\ MarkIdle /\ ThrIdle
  /\ LateIdle

Init ==
  /\ profile \in Profiles
  /\ codec \in Codecs(profile)
  /\ keep_alive \in KeepAlives(profile)
  /\ DataInit
  /\ LifeRunning
  /\ RtpIdle
  /\ FlowIdle

\* The remote stack takes the transport down after its I/O thread saw the
\* peer gone: the transport is unregistered from the bus.  (The remove path
\* itself is not in the sources; the unregistration is.)
PeerGone ==
  /\ ioPc = "exited"
  /\ \/ profile = A2DP_SOURCE /\ ioEvt.bt = "reset"
     \/ profile = A2DP_SINK /\ ioEvt.read = "eof"

TransportRemoved ==
  /\ PeerGone
  /\ ba_dbus_id # 0
  /\ DbusUnregister

Control ==
  \/ \E mode \in Modes : PcmOpenRefused(mode)
  \/ \E mode \in Modes, env \in OpenEnvs : PcmOpenProceed(mode, env)
  \/ \E n \in Sessions, f \in Frames : PcmControllerCmd(n, f)
  \/ \E n \in Sessions, f \in Frames : PcmControllerDrain(n, f)
  \/ DrainReturn
  \/ \E n \in Sessions : PcmControllerEOF(n)

Client ==
  \/ \E n \in Sessions : ClientWrite(n)
  \/ \E n \in Sessions : ClientClose(n)

IoThread ==
  \/ IoTop
  \/ IoSrcTimeout
  \/ \E bw \in BtWrites : IoSrcSignal(bw)
  \/ \E bw \in BtWrites : IoSrcData(bw)
  \/ IoSinkSignal
  \/ \E br \in BtReads : IoSinkData(br)
  \/ \E acq \in BOOLEAN : IoScoSignal(acq, TRUE)
  \/ \E br \in BtReads, bw \in BtWrites : IoScoData(br, bw)

Next == Control \/ Client \/ IoThread \/ TransportRemoved

Spec == Init /\ [][Next]_vars

\* The scheduler runs the I/O thread whenever it can take a step.
FairSpec == Spec /\ WF_vars(IoThread)

\* ... and the remote stack reports a transport whose peer is gone.
RemovalSpec == FairSpec /\ WF_vars(TransportRemoved)

\* A new transport: one reference (the owner's), not on the bus, no thread.
LifeInit ==
  /\ profile \in Profiles
  /\ codec \in LifeCodecs(profile)
  /\ keep_alive = 0
  /\ state = "IDLE"
  /\ ioPc = "none"
  /\ btFd = NoFd
  /\ PlaneInit
  /\ ba_dbus_id = 0
  /\ events = <<>>
  /\ refs = 1
  /\ thread = "main"
  /\ running = {}
  /\ nCreate = 0
  /\ createRet = 0
  /\ RtpIdle
  /\ FlowIdle

LifeNext ==
  \/ \E ok \in BOOLEAN : DbusRegister(ok)
  \/ \E ok \in BOOLEAN : DbusRegisterRfcomm(ok)
  \/ \E mask \in UpdateMasks : DbusUpdate(mask)
  \/ DbusUnregister
  \/ \E ok \in BOOLEAN : IoThreadCreate(ok)
  \/ \E i \in 1..MaxCreates, reset \in BOOLEAN : IoThreadReturn(i, reset)

LifeSpec == LifeInit /\ [][LifeNext]_vars

(***************************************************************************)
(* RTP sequence numbers in the A2DP source loops (io.c:183-192, 412-418,   *)
(* 548-562 SBC, 1032-1067 AAC, 1494-1521 LDAC).  One step is one attempt   *)
(* to write a packet to the BT socket.                                     *)
(***************************************************************************)
MaxPackets == 3
MaxFragments == 2

RtpCodecs == {"SBC", "AAC", "LDAC"}

\* uint16_t arithmetic.
Uint16(n) == n % 65536

\* htons / ntohs on a little-endian host: the two bytes are swapped.
Htons(n) == (n % 256) * 256 + (n \div 256)
Ntohs(n) == (n % 256) * 256 + (n \div 256)

\* header->seq_number = random(): the values the header may start with.
RtpSeeds == {0, 65279, 65535}

\* A faulty variant: the counter is not reduced modulo 65536.
NextSeqUnbounded(n) == n + 1

\* ++seq_number on a uint16_t.
NextSeq(n) == Uint16(n + 1)

\* The packet handed to write(): the sequence number is what the peer reads
\* from the header, res is how the write ended.
Packet(hdr, res) == [seq |-> Ntohs(hdr), res |-> res]

\* ba_transport_set_state from the controller's Pause and Resume.
RtpSetState(s) ==
  /\ rtpPc = "loop"
  /\ s # state
  /\ state' = SetState(state, s)
  /\ UNCHANGED <<cfgVars, flowVars, pcmVars, sigVars, ctlVars, ioVars, lifeVars, rtpVars>>

\* io.c:548-562: the SBC loop numbers the packet, then writes it.
RtpSbcWrite(bw) ==
  LET n == NextSeq(seq_number) IN
  /\ codec = "SBC"
  /\ rtpPc = "loop"
  /\ state = "ACTIVE"
  /\ Len(packets) < MaxPackets
  /\ seq_number' = n
  /\ hdr_seq' = Htons(n)
  /\ packets' = Append(packets, Packet(Htons(n), bw))
  /\ rtpPc' = IF BtWriteFatal(bw) THEN "exited" ELSE "loop"
  /\ UNCHANGED <<cfgVars, flowVars, state, pcmVars, sigVars, ctlVars, ioVars, lifeVars, aacLeft>>

\* io.c:1010-1031: a frame was encoded; its payload takes n packets.
RtpAacEncode(n) ==
  /\ codec = "AAC"
  /\ rtpPc = "loop"
  /\ state = "ACTIVE"
  /\ aacLeft = 0
  /\ Len(packets) < MaxPackets
  /\ aacLeft' = n
  /\ UNCHANGED <<cfgVars, flowVars, state, pcmVars, sigVars, ctlVars, ioVars, lifeVars,
                 seq_number, hdr_seq, packets, rtpPc>>

\* io.c:1032-1067: one pass of the fragment loop.  A failed write that does
\* not end the thread breaks out of the loop: the rest of the frame is
\* dropped.
RtpAacWrite(bw) ==
  LET n == NextSeq(seq_number) IN
  /\ codec = "AAC"
  /\ rtpPc = "loop"
  /\ aacLeft > 0
  /\ Len(packets) < MaxPackets
  /\ seq_number' = n
  /\ hdr_seq' = Htons(n)
  /\ packets' = Append(packets, Packet(Htons(n), bw))
  /\ rtpPc' = IF BtWriteFatal(bw) THEN "exited" ELSE "loop"
  /\ aacLeft' = IF bw = "ok" THEN aacLeft - 1 ELSE 0
  /\ UNCHANGED <<cfgVars, flowVars, state, pcmVars, sigVars, ctlVars, ioVars, lifeVars>>

\* io.c:1494-1521: the LDAC loop writes the packet with the header as it
\* is and numbers the next one afterwards, whether or not the write
\* succeeded; nothing is written or counted when the encoder gave no
\* output yet.
RtpLdacWrite(encoded, bw) ==
  LET n == NextSeq(seq_number) IN
  /\ codec = "LDAC"
  /\ rtpPc = "loop"
  /\ state = "ACTIVE"
  /\ Len(packets) < MaxPackets
  /\ IF ~encoded THEN UNCHANGED <<seq_number, hdr_seq, packets, rtpPc>>
     ELSE /\ packets' = Append(packets, Packet(hdr_seq, bw))
          /\ rtpPc' = IF BtWriteFatal(bw) THEN "exited" ELSE "loop"
          /\ seq_number' = IF BtWriteFatal(bw) THEN seq_number ELSE n
          /\ hdr_seq' = IF BtWriteFatal(bw) THEN hdr_seq ELSE Htons(n)
  /\ UNCHANGED <<cfgVars, flowVars, state, pcmVars, sigVars, ctlVars, ioVars, lifeVars, aacLeft>>

\* io.c:412-418: the header is initialised and the counter read from it.
RtpInit ==
  /\ profile = A2DP_SOURCE
  /\ codec \in RtpCodecs
  /\ keep_alive = 0
  /\ state = "ACTIVE"
  /\ ioPc = "none"
  /\ btFd = 1
  /\ PlaneInit
  /\ LifeRunning
  /\ hdr_seq \in RtpSeeds
  /\ seq_number = Ntohs(hdr_seq)
  /\ packets = <<>>
  /\ aacLeft = 0
  /\ rtpPc = "loop"
  /\ FlowIdle

RtpNext ==
  \/ \E s \in {"ACTIVE", "PAUSED"} : RtpSetState(s)
  \/ \E bw \in BtWrites : RtpSbcWrite(bw)
  \/ \E n \in 1..MaxFragments : RtpAacEncode(n)
  \/ \E bw \in BtWrites : RtpAacWrite(bw)
  \/ \E encoded \in BOOLEAN, bw \in BtWrites : RtpLdacWrite(encoded, bw)

RtpSpec == RtpInit /\ [][RtpNext]_vars

(***************************************************************************)
(* The SBC source loop, one encode batch at a time (io.c:368-593).  PCM is *)
(* counted in units of half a codesize, the BT buffer in bytes.            *)
(***************************************************************************)
RtpHeaderLen == 12                \* RTP_HEADER_LEN
MediaHeaderLen == 1               \* sizeof(rtp_media_header_t)

\* The transports looked at: the writing MTU, the SBC frame length and the
\* codesize (sbc_pcm_samples) of the negotiated configuration.  The third
\* one has an MTU too small for one frame.
SbcConfigs ==
  {[mtu |-> 679, frame_len |-> 119, codesize |-> 2],
   [mtu |-> 679, frame_len |-> 24, codesize |-> 2],
   [mtu |-> 100, frame_len |-> 119, codesize |-> 2]}

\* io.c:399: mtu_write_payload, computed before t->mtu_write is adjusted.
MtuWritePayload(cfg) == cfg.mtu - RtpHeaderLen - MediaHeaderLen

\* io.c:400-404: t->mtu_write after the adjustment.
MtuWrite(cfg) ==
  IF MtuWritePayload(cfg) < cfg.frame_len
    THEN RtpHeaderLen + MediaHeaderLen + cfg.frame_len
  ELSE cfg.mtu

\* io.c:406-407: the capacities of the pcm and bt buffers.
PcmCapacity(cfg) == cfg.codesize * (MtuWritePayload(cfg) \div cfg.frame_len)
BtCapacity(cfg) == MtuWrite(cfg)

\* io.c:516-520: bt.tail = rtp_payload; output_len = ffb_len_in(&bt).
SbcOutputLen(cfg) == BtCapacity(cfg) - RtpHeaderLen - MediaHeaderLen

\* The frame count as the media header holds it: a field of four bits.
FrameCount(k) == k % 16

\* io.c:527-546: the encode loop.  errAt: the call of sbc_encode that
\* fails (0: none).  Yields what is left of the input and the output
\* space, the frames encoded, and whether the loop was left on an error.
RECURSIVE SbcEncodeBatch(_, _, _, _, _)
SbcEncodeBatch(input_len, output_len, frames, cfg, errAt) ==
  IF input_len >= cfg.codesize /\ output_len >= cfg.frame_len
    THEN IF errAt = frames + 1
           THEN [input_len |-> input_len, output_len |-> output_len,
                 frames |-> frames, err |-> TRUE]
         ELSE SbcEncodeBatch(input_len - cfg.codesize,
                             output_len - cfg.frame_len, frames + 1, cfg, errAt)
  ELSE [input_len |-> input_len, output_len |-> output_len,
        frames |-> frames, err |-> FALSE]

\* io.c:555: ffb_len_out(&bt) after the batch: the headers and the bytes
\* the encoder put behind them.
SbcPacketLen(cfg, b) ==
  RtpHeaderLen + MediaHeaderLen + (SbcOutputLen(cfg) - b.output_len)

\* The sizes read() may return when free elements are asked for: a part of
\* a codesize, one codesize, all that was asked for; 0 when nothing was
\* asked for.
ReadSizes(cfg, free) ==
  IF free = 0 THEN {0} ELSE {n \in {1, cfg.codesize, free} : n <= free}

\* io.c:486-580: PCM became readable: read, encode a batch, write the
\* packet, shift the pcm buffer.
SbcReadEncodeWrite(n, errAt, bw) ==
  LET fd == pcmFd["a2dp"]
      samples == pcmLen + n
      b == SbcEncodeBatch(samples, SbcOutputLen(sbcCfg), 0, sbcCfg, errAt)
      sq == NextSeq(seq_number)
  IN
  /\ sbcPc = "loop"
  /\ state = "ACTIVE"
  /\ fd # NoFd
  /\ n \in ReadSizes(sbcCfg, PcmCapacity(sbcCfg) - pcmLen)
  /\ IF n = 0
       THEN \* read() returned 0: io_thread_read_pcm releases the endpoint
            /\ errAt = 0 /\ bw = "ok"
            /\ pcmFd' = ReleaseFds(pcmFd, "a2dp")
            /\ sess' = ReleaseSess(sess, pcmFd, "a2dp")
            /\ poll_timeout' = KeepAliveTimeout(keep_alive)
            /\ sbcEvt' = [NoSbcEvt EXCEPT !.left = pcmLen, !.released = TRUE]
            /\ UNCHANGED <<seq_number, hdr_seq, packets, pcmLen, sbcPkt, sbcPc>>
     ELSE /\ Len(packets) < MaxPackets
          /\ seq_number' = sq
          /\ hdr_seq' = Htons(sq)
          /\ packets' = Append(packets, Packet(Htons(sq), bw))
          /\ sbcPkt' = [len |-> SbcPacketLen(sbcCfg, b),
                        hdr |-> RtpHeaderLen + MediaHeaderLen,
                        frames |-> b.frames,
                        frame_count |-> FrameCount(b.frames),
                        seq |-> Ntohs(Htons(sq))]
          /\ pcmLen' = b.input_len
          /\ sbcPc' = IF BtWriteFatal(bw) THEN "exited" ELSE "loop"
          /\ sbcEvt' = [read |-> n, frames |-> b.frames, err |-> b.err,
                        wrote |-> TRUE, left |-> b.input_len, released |-> FALSE]
          /\ UNCHANGED <<pcmFd, sess, poll_timeout>>
  /\ UNCHANGED <<cfgVars, state, nOpens, written, sigVars, ctlVars, lifeVars,
                 ioPc, pfds, ioEvt, btFd, scoOut, scoIn, aacLeft, rtpPc, sbcCfg, aacVars, volVars, h2Vars,
                 batchVars, markVars, thrVars, lateVars>>

\* io.c:444-453: poll() returned 0.
SbcTimeout ==
  /\ sbcPc = "loop"
  /\ poll_timeout # NoTimeout
  /\ poll_timeout' = NoTimeout
  /\ sbcPc' = IF TimeoutExits(pcmFd["a2dp"]) THEN "exited" ELSE "loop"
  /\ sbcEvt' = NoSbcEvt
  /\ UNCHANGED <<cfgVars, state, pcmVars, sigVars, ctlVars, lifeVars, rtpVars,
                 ioPc, pfds, ioEvt, btFd, scoOut, scoIn, sbcCfg, pcmLen, sbcPkt, aacVars,
                 volVars, h2Vars, batchVars, markVars, thrVars, lateVars>>

\* The thread has initialised its buffers; a client holds the PCM.
SbcInit ==
  /\ profile = A2DP_SOURCE
  /\ codec = "SBC"
  /\ keep_alive \in KeepAlives(profile)
  /\ state = "ACTIVE"
  /\ ioPc = "none"
  /\ btFd = 1
  /\ pcmFd = [e \in Endpoints |-> IF e = "a2dp" THEN 1 ELSE NoFd]
  /\ nOpens = 1
  /\ sess = [n \in Sessions |->
               IF n = 1 THEN [ep |-> "a2dp", int |-> TRUE, cli |-> TRUE,
                              ctl |-> TRUE, data |-> 0]
               ELSE NoSess]
  /\ written = 0
  /\ sigq = <<>>
  /\ nextId = 1
  /\ lastId = 0
  /\ ctlPc = "idle"
  /\ drainReq = "none"
  /\ last = NoOp
  /\ poll_timeout = NoTimeout
  /\ pfds = NoPfds
  /\ ioEvt = NoEvt
  /\ scoOut = 0
  /\ scoIn = 0
  /\ LifeRunning
  /\ hdr_seq \in RtpSeeds
  /\ seq_number = Ntohs(hdr_seq)
  /\ packets = <<>>
  /\ aacLeft = 0
  /\ rtpPc = "none"
  /\ sbcCfg \in SbcConfigs
  /\ pcmLen = 0
  /\ sbcPkt = NoPkt
  /\ sbcEvt = NoSbcEvt
  /\ sbcPc = "loop"
  /\ AacIdle
  /\ VolIdle
  /\ H2Idle
  /\ BatchIdle
  /\ MarkIdle
  /\ ThrIdle
  /\ LateIdle

\* The call of the encoder that fails in a batch: none, the first, the second.
MaxErrAt == 2

SbcNext ==
  \/ \E n \in 0..PcmCapacity(sbcCfg), errAt \in 0..MaxErrAt, bw \in BtWrites :
       SbcReadEncodeWrite(n, errAt, bw)
  \/ SbcTimeout

SbcSpec == SbcInit /\ [][SbcNext]_vars

(***************************************************************************)
(* The AAC source: one encoded frame and its RTP fragments                 *)
(* (io.c:1017-1085).  The bytes of a frame are told apart by their offset  *)
(* in the frame.                                                           *)
(***************************************************************************)
AacMtuWrite == 16                 \* t->mtu_write of the transport looked at
MaxFrameLen == 9                  \* out_args.numOutBytes is at most this
MaxFrames == 2                    \* frames encoded in one behaviour
MaxBatches == 2                   \* batches whose volume is looked at

\* io.c:1024: payload_len_max.
PayloadLenMax == AacMtuWrite - RtpHeaderLen

\* A faulty variant: a fragment that fills the packet is never the last one.
AacMarkbitStrict(payload_len) == payload_len < PayloadLenMax

\* io.c:1037-1038: the length of the next fragment and its mark bit.
AacFragLen(payload_len) ==
  IF payload_len > PayloadLenMax THEN PayloadLenMax ELSE payload_len
AacMarkbit(payload_len) == payload_len <= PayloadLenMax

\* io.c:1073-1075: the timestamp after a frame of aacinf.frameLength
\* samples per channel at 44100 Hz (the frames looked at stay far from the
\* wrap of the 32 bits).
AacNextTimestamp(ts) == ts + (1024 * 10000) \div 44100

\* io.c:1019-1026: aacEncEncode gave a frame of n bytes; it lies at
\* rtp_payload, and the header gets the timestamp.
AacEncode(n) ==
  /\ aacPc = "loop"
  /\ aacLen = 0
  /\ aacN < MaxFrames
  /\ aacN' = aacN + 1
  /\ aacFrame' = n
  /\ aacLen' = n
  /\ aacOff' = 0
  /\ aacHdrTs' = aacTs
  /\ aacFrags' = <<>>
  /\ UNCHANGED <<cfgVars, state, pcmVars, sigVars, ctlVars, ioVars, lifeVars,
                 rtpVars, sbcVars, volVars, h2Vars, batchVars, markVars, thrVars, lateVars,
                 aacTs, aacPc>>

\* io.c:1032-1067: one turn of the fragment loop: a fragment is written,
\* and what is left of the frame is moved to the start of the payload.
\* After the last fragment, and after a write that failed, the frame is
\* done with (io.c:1071-1083).
AacWriteFragment(bw) ==
  LET len == AacFragLen(aacLen)
      sq == NextSeq(seq_number)
      frag == [seq |-> Ntohs(Htons(sq)), markbit |-> AacMarkbit(aacLen),
               ts |-> aacHdrTs, from |-> aacOff, len |-> len, res |-> bw]
      done == bw # "ok" \/ aacLen - len = 0
  IN
  /\ aacPc = "loop"
  /\ aacLen > 0
  /\ seq_number' = sq
  /\ hdr_seq' = Htons(sq)
  /\ aacFrags' = Append(aacFrags, frag)
  /\ aacPc' = IF BtWriteFatal(bw) THEN "exited" ELSE "loop"
  /\ aacLen' = IF done THEN 0 ELSE aacLen - len
  /\ aacOff' = IF bw = "ok" THEN aacOff + len ELSE aacOff
  /\ aacTs' = IF done /\ ~BtWriteFatal(bw) THEN AacNextTimestamp(aacTs) ELSE aacTs
  /\ UNCHANGED <<cfgVars, state, pcmVars, sigVars, ctlVars, ioVars, lifeVars,
                 packets, aacLeft, rtpPc, sbcVars, volVars, h2Vars, batchVars, markVars, thrVars, lateVars,
                 aacFrame, aacHdrTs,
                 aacN>>

\* io.c:897-902: the header is initialised; no frame was encoded yet.
AacInit ==
  /\ profile = A2DP_SOURCE
  /\ codec = "AAC"
  /\ keep_alive = 0
  /\ state = "ACTIVE"
  /\ ioPc = "none"
  /\ btFd = 1
  /\ PlaneInit
  /\ LifeRunning
  /\ hdr_seq \in RtpSeeds
  /\ seq_number = Ntohs(hdr_seq)
  /\ packets = <<>>
  /\ aacLeft = 0
  /\ rtpPc = "none"
  /\ SbcIdle
  /\ aacFrame = 0
  /\ aacLen = 0
  /\ aacOff = 0
  /\ aacTs = 0
  /\ aacHdrTs = 0
  /\ aacFrags = <<>>
  /\ aacN = 0
  /\ aacPc = "loop"
  /\ VolIdle
  /\ H2Idle
  /\ BatchIdle
  /\ MarkIdle
  /\ ThrIdle
  /\ LateIdle

AacNext ==
  \/ \E n \in 1..MaxFrameLen : AacEncode(n)
  \/ \E bw \in BtWrites : AacWriteFragment(bw)

AacSpec == AacInit /\ [][AacNext]_vars

(***************************************************************************)
(* Software volume in the A2DP flows (io.c:60-71 and its callers).         *)
(***************************************************************************)
A2dpFlows ==
  {"source_sbc", "source_aac", "source_aptx", "source_ldac", "sink_sbc", "sink_aac"}
Volumes == {0, 64, 127}
Samples == {-32768, -1000, 0, 1000, 32767}

\* 10^((-64 + 64 * v / 127) / 20) for the volumes looked at, in thousandths
\* (rounded): 127 gives 1, 64 gives 0.0259, 0 gives 0.0006.
ScalePermille(v) == IF v = 127 THEN 1000 ELSE IF v = 64 THEN 26 ELSE 1

\* The product cut to an integer as the conversion to int16_t does.
Truncate(a, b) == IF a >= 0 THEN a \div b ELSE -((-a) \div b)

\* io.c:60-71: io_thread_scale_pcm on one sample of channel 1: the factor
\* is 0 for a muted channel.
ScalePcm(sample, v, muted) ==
  IF muted THEN 0 ELSE Truncate(sample * ScalePermille(v), 1000)

\* Whether a flow calls io_thread_scale_pcm: the sources test
\* config.a2dp.volume (io.c:507, 1010, 1222, 1463), the sinks do not
\* (io.c:348, 771).
FlowScales(flow, forward) ==
  IF flow \in {"sink_sbc", "sink_aac"} THEN TRUE ELSE ~forward

\* The codecs with an I/O routine for the profile, and the flow they run.
VolCodecs(p) ==
  IF p = A2DP_SOURCE THEN {"SBC", "AAC", "APTX", "LDAC"} ELSE {"SBC", "AAC"}
A2dpFlow(p, c) ==
  IF p = A2DP_SOURCE
    THEN CASE c = "SBC" -> "source_sbc" [] c = "AAC" -> "source_aac"
           [] c = "APTX" -> "source_aptx" [] OTHER -> "source_ldac"
  ELSE IF c = "SBC" THEN "sink_sbc" ELSE "sink_aac"

\* One batch of a flow passes a sample on.
VolBatch(flow, sample) ==
  /\ flow = A2dpFlow(profile, codec)
  /\ volN < MaxBatches
  /\ volN' = volN + 1
  /\ volFlow' = flow
  /\ volIn' = sample
  /\ volOut' = IF FlowScales(flow, a2dp_volume)
                 THEN ScalePcm(sample, ch1_volume, ch1_muted)
               ELSE sample
  /\ UNCHANGED <<cfgVars, state, pcmVars, sigVars, ctlVars, ioVars, lifeVars,
                 rtpVars, sbcVars, aacVars, h2Vars, batchVars, markVars, thrVars, lateVars,
                 a2dp_volume, ch1_volume,
                 ch1_muted>>

\* The volume or the mute switch of the transport is set.
VolSet(v, m) ==
  /\ <<v, m>> # <<ch1_volume, ch1_muted>>
  /\ ch1_volume' = v
  /\ ch1_muted' = m
  /\ UNCHANGED <<cfgVars, state, pcmVars, sigVars, ctlVars, ioVars, lifeVars,
                 rtpVars, sbcVars, aacVars, h2Vars, batchVars, markVars, thrVars, lateVars,
                 a2dp_volume, volFlow, volIn, volOut,
                 volN>>

VolInit ==
  /\ profile \in {A2DP_SOURCE, A2DP_SINK}
  /\ codec \in VolCodecs(profile)
  /\ keep_alive = 0
  /\ state = "ACTIVE"
  /\ ioPc = "none"
  /\ btFd = 1
  /\ PlaneInit
  /\ LifeRunning
  /\ RtpIdle
  /\ SbcIdle
  /\ AacIdle
  /\ a2dp_volume \in BOOLEAN
  /\ ch1_volume = 127
  /\ ch1_muted = FALSE
  /\ volFlow = "none"
  /\ volIn = 0
  /\ volOut = 0
  /\ volN = 0
  /\ H2Idle
  /\ BatchIdle
  /\ MarkIdle
  /\ ThrIdle
  /\ LateIdle

VolNext ==
  \/ \E flow \in A2dpFlows, sample \in Samples : VolBatch(flow, sample)
  \/ \E v \in Volumes, m \in BOOLEAN : VolSet(v, m)

VolSpec == VolInit /\ [][VolNext]_vars

(***************************************************************************)
(* The scan for an H2 header (msbc_find_h2_header, exercised by            *)
(* test-msbc.c:20-61).  Bytes are numbers 0..255, NULL is NoOffset.        *)
(***************************************************************************)
MaxScan == 4                      \* the length of the scanned data, at most

\* The bytes the scanned data is made of: the sync byte, second bytes with
\* and without duplicated sequence bits, and others.
H2Bytes == {0, 1, 8, 24, 56, 88, 200, 248}

\* The input vectors of test-msbc.c:22-33.
H2TestVectors ==
  {<<0, 0, 0, 0, 0, 0, 0, 0, 0, 0>>,
   <<1, 8, 173, 0, 0, 213, 16, 0, 17, 16>>,
   <<0, 213, 16, 0, 1, 56, 173, 0, 17, 16>>,
   <<213, 1, 200, 173, 0, 1, 248, 173, 17, 16>>,
   <<1, 24, 173, 0, 0, 213, 16, 0, 17, 16>>,
   <<1, 88, 173, 0, 0, 213, 16, 0, 17, 16>>}

\* A faulty variant: the sync word alone makes a header.
H2ValidSyncOnly(b0, b1) == b0 = 1 /\ b1 % 16 = 8

\* The two bytes are an H2 header: the 12-bit sync word 0x801 (low byte
\* first), and the two sequence bits each twice.
H2Valid(b0, b1) ==
  LET sn0 == (b1 \div 16) % 4
      sn1 == (b1 \div 64) % 4
  IN /\ b0 = 1
     /\ b1 % 16 = 8
     /\ sn0 \div 2 = sn0 % 2
     /\ sn1 \div 2 = sn1 % 2

\* The scan: as long as two bytes are left, test them and move on by one
\* byte; what is left when it stops is stored through len.
RECURSIVE MsbcFindH2Header(_, _, _)
MsbcFindH2Header(data, off, len) ==
  IF len >= 2
    THEN IF H2Valid(data[off + 1], data[off + 2])
           THEN [ptr |-> off, len |-> len]
         ELSE MsbcFindH2Header(data, off + 1, len - 1)
  ELSE [ptr |-> NoOffset, len |-> len]

\* test-msbc.c:37-59: one call with len = sizeof(data).
H2Find ==
  /\ h2Pc = "ready"
  /\ h2Pc' = "done"
  /\ h2Res' = MsbcFindH2Header(h2Data, 0, Len(h2Data))
  /\ UNCHANGED <<cfgVars, state, pcmVars, sigVars, ctlVars, ioVars, lifeVars,
                 rtpVars, sbcVars, aacVars, volVars, batchVars, markVars, thrVars, lateVars,
                 h2Data>>

\* The data to scan.
H2Inputs ==
  H2TestVectors \cup UNION {[1..n -> H2Bytes] : n \in 0..MaxScan}

H2Init ==
  /\ profile = HFP_AG
  /\ codec = "UNDEFINED"
  /\ keep_alive = 0
  /\ state = "ACTIVE"
  /\ ioPc = "none"
  /\ btFd = 1
  /\ PlaneInit
  /\ LifeRunning
  /\ RtpIdle
  /\ SbcIdle
  /\ AacIdle
  /\ VolIdle
  /\ BatchIdle
  /\ MarkIdle
  /\ ThrIdle
  /\ LateIdle
  /\ h2Data \in H2Inputs
  /\ h2Res = [ptr |-> NoOffset, len |-> Len(h2Data)]
  /\ h2Pc = "ready"

H2Next == H2Find

H2Spec == H2Init /\ [][H2Next]_vars

(***************************************************************************)
(* The encode loops of the four source flows between two waits             *)
(* (io.c:512-578, 1015-1085, 1227-1295, 1468-1529).  PCM is counted in     *)
(* units of half a codec frame.                                            *)
(***************************************************************************)
MaxPasses == 3                    \* passes of an encode loop that are counted
BatchCapacity == 4                \* the pcm buffer: two codec frames
FrameUnits == 2                   \* the PCM of one codec frame
SourceFlows == {"source_sbc", "source_aac", "source_aptx", "source_ldac"}

\* What one pass of the flow's encode loop takes out of the pcm buffer.
\* err: the codec call of the pass fails; eats: a failing aacEncEncode
\* still reports the input as taken (out_args.numInSamples).
\*   SBC  (io.c:527-546, 578): the frames of one packet, none on an error.
\*   AAC  (io.c:1017-1083): what the encoder reports.
\*   aptX (io.c:1242-1264): the frames of one packet, none on an error.
\*   LDAC (io.c:1481-1490): one frame, none on an error.
PassConsumes(flow, in, err, eats) ==
  CASE flow = "source_aac" -> IF err /\ ~eats THEN 0 ELSE in
    [] flow = "source_sbc" -> IF err THEN 0 ELSE (in \div FrameUnits) * FrameUnits
    [] OTHER -> IF err \/ in < FrameUnits THEN 0 ELSE FrameUnits

\* Whether the flow makes another pass before it goes back to poll().
\*   SBC : never (one batch per read).
\*   AAC : while (ffb_len_out(&pcm) > 0)                      (io.c:1017)
\*   aptX: while (input_len >= aptx_pcm_samples)              (io.c:1234)
\*   LDAC: while (input_len >= ldac_pcm_samples), left with
\*         break on an error                             (io.c:1475, 1483)
PassAgain(flow, left, err) ==
  CASE flow = "source_sbc" -> FALSE
    [] flow = "source_aac" -> left > 0
    [] flow = "source_aptx" -> left >= FrameUnits
    [] OTHER -> ~err /\ left >= FrameUnits

\* Whether a pass writes to the BT socket: SBC and aptX always, AAC and
\* LDAC when the encoder gave output.
PassWrites(flow, err) == flow \in {"source_sbc", "source_aptx"} \/ ~err

\* PCM was read: the thread enters the encode loop if its condition holds.
BatchRead(n) ==
  /\ bPc = "wait"
  /\ n \in 1..(BatchCapacity - bIn)
  /\ bIn' = bIn + n
  /\ bPasses' = 0
  /\ bLast' = [err |-> FALSE, bw |-> "none", took |-> 0]
  /\ bPc' = IF \/ bFlow = "source_sbc"
               \/ bFlow = "source_aac"
               \/ bIn + n >= FrameUnits
              THEN "batch" ELSE "wait"
  /\ UNCHANGED <<cfgVars, state, pcmVars, sigVars, ctlVars, ioVars, lifeVars,
                 rtpVars, sbcVars, aacVars, volVars, h2Vars, markVars, thrVars, lateVars, bFlow>>

\* One pass of the encode loop.
BatchPass(err, eats, bw) ==
  LET took == PassConsumes(bFlow, bIn, err, eats)
      writes == PassWrites(bFlow, err)
  IN
  /\ bPc = "batch"
  /\ eats => (err /\ bFlow = "source_aac")
  /\ (bw = "none") <=> ~writes
  /\ bIn' = bIn - took
  /\ bPasses' = IF bPasses < MaxPasses THEN bPasses + 1 ELSE bPasses
  /\ bLast' = [err |-> err, bw |-> bw, took |-> took]
  /\ bPc' = IF writes /\ BtWriteFatal(bw) THEN "exited"
            ELSE IF PassAgain(bFlow, bIn - took, err) THEN "batch"
            ELSE "wait"
  /\ UNCHANGED <<cfgVars, state, pcmVars, sigVars, ctlVars, ioVars, lifeVars,
                 rtpVars, sbcVars, aacVars, volVars, h2Vars, markVars, thrVars, lateVars, bFlow>>

BatchInit ==
  /\ profile = A2DP_SOURCE
  /\ codec = "SBC"
  /\ keep_alive = 0
  /\ state = "ACTIVE"
  /\ ioPc = "none"
  /\ btFd = 1
  /\ PlaneInit
  /\ LifeRunning
  /\ RtpIdle
  /\ SbcIdle
  /\ AacIdle
  /\ VolIdle
  /\ H2Idle
  /\ MarkIdle
  /\ ThrIdle
  /\ LateIdle
  /\ bFlow \in SourceFlows
  /\ bIn = 0
  /\ bPasses = 0
  /\ bLast = [err |-> FALSE, bw |-> "none", took |-> 0]
  /\ bPc = "wait"

BatchLoop == \E err \in BOOLEAN, eats \in BOOLEAN, bw \in BtWrites \cup {"none"} :
               BatchPass(err, eats, bw)

BatchNext ==
  \/ \E n \in 1..BatchCapacity : BatchRead(n)
  \/ BatchLoop

\* The thread is scheduled: a pass that can be made is made.
BatchSpec == BatchInit /\ [][BatchNext]_vars /\ WF_vars(BatchLoop)

(***************************************************************************)
(* The mark bit in the AAC sink (io.c:657-658, 710-758).  The packets are  *)
(* taken as the default build takes them (no payload type check).          *)
(***************************************************************************)
MaxMarkPackets == 5               \* packets handled with the PCM open
MarkbitQuirkInit == -3            \* int markbit_quirk = -3

\* A faulty variant: the test of the first packets is made for every packet.
MarkbitQuirkAlways(q, markbit) ==
  IF markbit THEN 0 ELSE IF q + 1 = 0 THEN 1 ELSE q + 1

\* io.c:729-736: markbit_quirk after a packet with the given mark bit.
MarkbitQuirkNext(q, markbit) ==
  IF q < 0
    THEN IF markbit THEN 0
         ELSE IF q + 1 = 0 THEN 1
         ELSE q + 1
  ELSE q

\* io.c:693-775: a packet is read from the BT socket.  With the PCM closed
\* it is thrown away (io.c:710-713); otherwise its payload is added to the
\* latm buffer, and the buffer is decoded and emptied unless the packet is
\* taken for a fragment (io.c:755-758).
MarkPacket(markbit) ==
  LET q == MarkbitQuirkNext(markbit_quirk, markbit)
      fragment == q # 1 /\ ~markbit
  IN
  /\ thPc = "mark"
  /\ IF mPcm
       THEN /\ Len(mSeen) < MaxMarkPackets
            /\ markbit_quirk' = q
            /\ mSeen' = Append(mSeen, markbit)
            /\ mLatm' = IF fragment THEN mLatm + 1 ELSE 0
            /\ mLast' = [markbit |-> markbit, decoded |-> ~fragment, handled |-> TRUE]
     ELSE /\ mLast' = [markbit |-> markbit, decoded |-> FALSE, handled |-> FALSE]
          /\ UNCHANGED <<markbit_quirk, mSeen, mLatm>>
  /\ UNCHANGED <<cfgVars, state, pcmVars, sigVars, ctlVars, ioVars, lifeVars,
                 rtpVars, sbcVars, aacVars, volVars, h2Vars, batchVars, thrVars, lateVars, mPcm>>

\* A client opens the PCM, or the PCM is closed.
MarkPcm(open) ==
  /\ thPc = "mark"
  /\ mPcm # open
  /\ mPcm' = open
  /\ UNCHANGED <<cfgVars, state, pcmVars, sigVars, ctlVars, ioVars, lifeVars,
                 rtpVars, sbcVars, aacVars, volVars, h2Vars, batchVars, thrVars, lateVars,
                 markbit_quirk, mSeen, mLatm, mLast>>

\* io.c:655-666: the thread of an AAC sink enters its loop.
MarkInit ==
  /\ profile = A2DP_SINK
  /\ codec = "AAC"
  /\ keep_alive = 0
  /\ state = "ACTIVE"
  /\ ioPc = "none"
  /\ btFd = 1
  /\ PlaneInit
  /\ LifeRunning
  /\ RtpIdle
  /\ SbcIdle
  /\ AacIdle
  /\ VolIdle
  /\ H2Idle
  /\ BatchIdle
  /\ LateIdle
  /\ markbit_quirk = MarkbitQuirkInit
  /\ mPcm \in BOOLEAN
  /\ mSeen = <<>>
  /\ mLatm = 0
  /\ mLast = [markbit |-> FALSE, decoded |-> FALSE, handled |-> FALSE]
  /\ thFlow = "sink_aac"
  /\ thPc = "mark"
  /\ cancelstate = "enable"
  /\ lockCount = 0
  /\ locked = FALSE
  /\ stack = <<>>
  /\ cancelReq = FALSE
  /\ cleanupLock = -1
  /\ thWay = "none"

MarkNext ==
  \/ \E markbit \in BOOLEAN : MarkPacket(markbit)
  \/ \E open \in BOOLEAN : MarkPcm(open)

MarkSpec == MarkInit /\ [][MarkNext]_vars

(***************************************************************************)
(* An A2DP I/O thread followed through its routine: the cancellation       *)
(* state, the transport lock and the cleanup handlers (io.c:203-366,       *)
(* 368-593, 596-791, 795-1101, 1105-1310, 1314-1547).  thPc tells what the *)
(* thread is doing:                                                        *)
(*   "start"   it was created                                              *)
(*   "init"    it initialises the codec and the buffers                    *)
(*   "poll"    it is in poll()                                             *)
(*   "timeout" it handles a poll() that timed out                          *)
(*   "sigread" it reads the signal pipe                                    *)
(*   "read"    it reads the PCM (a source) or the BT socket (a sink)       *)
(*   "codec"   it calls the codec and moves the buffers                    *)
(*   "write"   it writes to the BT socket (a source)                       *)
(*   "sync"    it shifts or rewinds its buffers after the write            *)
(*   "returned" the routine has returned or the thread was cancelled       *)
(* and, in the SCO routine (io.c:1550-1925), which takes no lock:          *)
(*   "sco_init" it allocates its buffers                                   *)
(*   "msbc"    it calls the mSBC encoder and decoder before poll()         *)
(*   "sco_poll" it is in poll()                                            *)
(*   "transfer" it reads the signal and moves data after poll()            *)
(***************************************************************************)
ThreadFlows ==
  {"sink_sbc", "source_sbc", "sink_aac", "source_aac", "source_aptx", "source_ldac",
   "sco"}
IsSourceFlow(f) == f \in {"source_sbc", "source_aac", "source_aptx", "source_ldac"}

\* The handlers a routine pushes between ba_transport_pthread_cleanup and
\* ba_transport_pthread_cleanup_lock (codec state and buffers).
Resources(f) == IF f \in {"sink_aac", "source_ldac"} THEN 4 ELSE 3

\* The cleanup stack with k resource handlers, the last pushed first.
Handlers(k, withLock) ==
  (IF withLock THEN <<"cleanup_lock">> ELSE <<>>)
    \o [i \in 1..k |-> "free"] \o <<"cleanup">>

\* The functions at which a pending cancellation is acted upon: poll(),
\* read() and write().  pthread_mutex_lock and pthread_cond_signal are none.
CancellationPoints == {"poll", "sigread", "read", "write", "sco_poll"}

\* The handlers run, the first of stk first.  ba_transport_pthread_cleanup_lock
\* takes the transport lock; ba_transport_pthread_cleanup is entered with
\* the lock count of that moment (at) and releases the lock if it is held.
RECURSIVE RunHandlers(_, _, _)
RunHandlers(stk, lc, at) ==
  IF stk = <<>> THEN [lc |-> lc, at |-> at]
  ELSE IF Head(stk) = "cleanup_lock" THEN RunHandlers(Tail(stk), lc + 1, at)
  ELSE IF Head(stk) = "cleanup"
    THEN RunHandlers(Tail(stk), IF lc > 0 THEN lc - 1 ELSE 0, lc)
  ELSE RunHandlers(Tail(stk), lc, at)

\* A faulty variant: the handler on top is run in any case.
ExitStackAll(stk, lkd) == stk

\* pthread_cleanup_pop(!locked) at fail/final: the handler on top
\* (ba_transport_pthread_cleanup_lock) is run unless locked is set; the
\* ones below are run by pthread_cleanup_pop(1).
ExitStack(stk, lkd) == IF lkd THEN Tail(stk) ELSE stk

\* The routine is left through its labels (way: "init", "loop", "timeout")
\* or the thread is cancelled (way: "cancel"): the handlers of stk run.
ThrLeave(stk, way) ==
  LET r == RunHandlers(stk, lockCount, cleanupLock)
  IN /\ thPc' = "returned"
     /\ thWay' = way
     /\ cancelstate' = "disable"
     /\ lockCount' = r.lc
     /\ cleanupLock' = r.at
     /\ stack' = <<>>
     /\ UNCHANGED <<thFlow, locked, cancelReq>>

\* What no step of the thread changes.
ThrFrame ==
  UNCHANGED <<cfgVars, state, pcmVars, sigVars, ctlVars, ioVars, lifeVars,
              rtpVars, sbcVars, aacVars, volVars, h2Vars, batchVars, markVars,
              lateVars>>

\* io.c:208-215: cancellation is disabled, ba_transport_pthread_cleanup is
\* pushed and the transport is locked.
ThrStart ==
  /\ thPc = "start"
  /\ thFlow # "sco"
  /\ thPc' = "init"
  /\ cancelstate' = "disable"
  /\ stack' = Handlers(0, FALSE)
  /\ lockCount' = lockCount + 1
  /\ locked' = TRUE
  /\ UNCHANGED <<thFlow, cancelReq, cleanupLock, thWay>>
  /\ ThrFrame

\* io.c:217-250, 356-365: the initialisation fails with k resource handlers
\* pushed; the routine goes to the label that pops them.
ThrInitFail(k) ==
  /\ thPc = "init"
  /\ k \in 0..Resources(thFlow)
  /\ ThrLeave(Handlers(k, FALSE), "init")
  /\ ThrFrame

\* io.c:254-268: ba_transport_pthread_cleanup_lock is pushed, the transport
\* is unlocked, and the loop is entered: cancellation is enabled for poll().
ThrInitDone ==
  /\ thPc = "init"
  /\ thPc' = "poll"
  /\ stack' = Handlers(Resources(thFlow), TRUE)
  /\ lockCount' = lockCount - 1
  /\ locked' = FALSE
  /\ cancelstate' = "enable"
  /\ UNCHANGED <<thFlow, cancelReq, cleanupLock, thWay>>
  /\ ThrFrame

\* io.c:275-288, 444-484: poll() returns.  A source whose poll() timed out
\* takes the transport lock (io.c:448); a poll() error ends the loop.
ThrPoll(ev) ==
  /\ thPc = "poll"
  /\ ev = "timeout" => IsSourceFlow(thFlow)
  /\ CASE ev = "timeout" ->
            /\ thPc' = "timeout"
            /\ lockCount' = lockCount + 1
            /\ locked' = TRUE
            /\ UNCHANGED <<thFlow, cancelstate, stack, cancelReq, cleanupLock, thWay>>
       [] ev = "error" -> ThrLeave(ExitStack(stack, locked), "loop")
       [] OTHER ->
            /\ thPc' = IF ev = "signal" THEN "sigread" ELSE "read"
            /\ UNCHANGED <<thFlow, cancelstate, lockCount, locked, stack, cancelReq,
                           cleanupLock, thWay>>
  /\ ThrFrame

\* io.c:449-453: with the PCM closed the routine goes to final, holding
\* the lock; otherwise it unlocks and goes back to poll().
ThrTimeout(closed) ==
  /\ thPc = "timeout"
  /\ IF closed
       THEN ThrLeave(ExitStack(stack, locked), "timeout")
     ELSE /\ thPc' = "poll"
          /\ lockCount' = lockCount - 1
          /\ locked' = FALSE
          /\ UNCHANGED <<thFlow, cancelstate, stack, cancelReq, cleanupLock, thWay>>
  /\ ThrFrame

\* io.c:282-288, 461-484: the signal was read; PCM_CLOSE in a source goes
\* on to the read of the PCM, all else goes back to poll().
ThrSigRead(close) ==
  /\ thPc = "sigread"
  /\ close => IsSourceFlow(thFlow)
  /\ thPc' = IF close THEN "read" ELSE "poll"
  /\ UNCHANGED <<thFlow, cancelstate, lockCount, locked, stack, cancelReq,
                 cleanupLock, thWay>>
  /\ ThrFrame

\* io.c:290-305, 486-498: the read returns: data (cancellation is disabled
\* for what follows), nothing to go on with (back to poll()), or what ends
\* the loop (a PCM read error in a source, end of file on the BT socket in
\* a sink).
ThrRead(res) ==
  /\ thPc = "read"
  /\ CASE res = "data" ->
            /\ thPc' = "codec"
            /\ cancelstate' = "disable"
            /\ UNCHANGED <<thFlow, lockCount, locked, stack, cancelReq, cleanupLock,
                           thWay>>
       [] res = "fail" -> ThrLeave(ExitStack(stack, locked), "loop")
       [] OTHER ->
            /\ thPc' = "poll"
            /\ UNCHANGED <<thFlow, cancelstate, lockCount, locked, stack, cancelReq,
                           cleanupLock, thWay>>
  /\ ThrFrame

\* io.c:331-354, 500-552: the codec is called and the buffers are moved.
\* A sink writes the PCM and is back at the top of the loop; a source
\* enables cancellation for the write to the BT socket.
ThrCodec ==
  /\ thPc = "codec"
  /\ thPc' = IF IsSourceFlow(thFlow) THEN "write" ELSE "poll"
  /\ cancelstate' = "enable"
  /\ UNCHANGED <<thFlow, lockCount, locked, stack, cancelReq, cleanupLock, thWay>>
  /\ ThrFrame

\* io.c:555-564: the write to the BT socket returns; a lost connection
\* ends the loop, otherwise cancellation is disabled again.
ThrWrite(bw) ==
  /\ thPc = "write"
  /\ IF BtWriteFatal(bw)
       THEN ThrLeave(ExitStack(stack, locked), "loop")
     ELSE /\ thPc' = "sync"
          /\ cancelstate' = "disable"
          /\ UNCHANGED <<thFlow, lockCount, locked, stack, cancelReq, cleanupLock,
                         thWay>>
  /\ ThrFrame

\* io.c:566-580: the buffers are shifted; the loops of AAC, aptX and LDAC
\* may call the codec once more (again), else the thread is back at the top
\* of the loop.
ThrSync(again) ==
  /\ thPc = "sync"
  /\ again => thFlow \in {"source_aac", "source_aptx", "source_ldac"}
  /\ thPc' = IF again THEN "codec" ELSE "poll"
  /\ cancelstate' = IF again THEN cancelstate ELSE "enable"
  /\ UNCHANGED <<thFlow, lockCount, locked, stack, cancelReq, cleanupLock, thWay>>
  /\ ThrFrame

\* io.c:1553-1566: the SCO routine disables cancellation and pushes
\* ba_transport_pthread_cleanup and the handlers of its buffers and of the
\* mSBC state; it takes no lock.
ScoStart ==
  /\ thPc = "start"
  /\ thFlow = "sco"
  /\ thPc' = "sco_init"
  /\ cancelstate' = "disable"
  /\ stack' = Handlers(3, FALSE)
  /\ UNCHANGED <<thFlow, lockCount, locked, cancelReq, cleanupLock, thWay>>
  /\ ThrFrame

\* io.c:1589-1599: the top of the SCO loop enables cancellation; with the
\* mSBC codec the encoder and the decoder are called next, before poll().
ScoLoopTop ==
  /\ thPc' = IF codec = "MSBC" THEN "msbc" ELSE "sco_poll"
  /\ cancelstate' = "enable"
  /\ UNCHANGED <<thFlow, lockCount, locked, stack, cancelReq, cleanupLock, thWay>>

\* io.c:1569-1573, 1587: the buffers are allocated (ok) or the routine goes
\* to fail_ffb.
ScoInit(ok) ==
  /\ thPc = "sco_init"
  /\ IF ok THEN ScoLoopTop ELSE ThrLeave(stack, "init")
  /\ ThrFrame

\* io.c:1598-1626: msbc_encode and msbc_decode have run; poll() is next.
ScoMsbc ==
  /\ thPc = "msbc"
  /\ thPc' = "sco_poll"
  /\ UNCHANGED <<thFlow, cancelstate, lockCount, locked, stack, cancelReq,
                 cleanupLock, thWay>>
  /\ ThrFrame

\* io.c:1628-1640: poll() returns: a timeout goes back to the top of the
\* loop, an error ends it, readiness disables cancellation.
ScoPoll(ev) ==
  /\ thPc = "sco_poll"
  /\ CASE ev = "timeout" -> ScoLoopTop
       [] ev = "error" -> ThrLeave(stack, "loop")
       [] OTHER ->
            /\ thPc' = "transfer"
            /\ cancelstate' = "disable"
            /\ UNCHANGED <<thFlow, lockCount, locked, stack, cancelReq, cleanupLock,
                           thWay>>
  /\ ThrFrame

\* io.c:1642-1913: the signal is read and data is moved; the Bluetooth link
\* lost ends the loop (io.c:1703), all else goes back to its top.
ScoTransfer(lost) ==
  /\ thPc = "transfer"
  /\ IF lost THEN ThrLeave(stack, "loop") ELSE ScoLoopTop
  /\ ThrFrame

\* Another thread calls pthread_cancel for the thread.
ThrCancel ==
  /\ thPc \notin {"start", "returned"}
  /\ ~cancelReq
  /\ cancelReq' = TRUE
  /\ UNCHANGED <<thFlow, thPc, cancelstate, lockCount, locked, stack, cleanupLock,
                 thWay>>
  /\ ThrFrame

\* The cancellation is acted upon: the thread is at a cancellation point
\* with cancellation enabled, and all handlers pushed are run.
ThrCancelled ==
  /\ cancelReq
  /\ cancelstate = "enable"
  /\ thPc \in CancellationPoints
  /\ ThrLeave(stack, "cancel")
  /\ ThrFrame

\* io.c:2061: the thread was created.
ThrInit ==
  /\ profile \in {A2DP_SOURCE, A2DP_SINK, HFP_AG}
  /\ codec \in IF IsSco(profile) THEN {"CVSD", "MSBC"} ELSE VolCodecs(profile)
  /\ keep_alive = 0
  /\ state = "ACTIVE"
  /\ ioPc = "none"
  /\ btFd = 1
  /\ PlaneInit
  /\ LifeRunning
  /\ RtpIdle
  /\ SbcIdle
  /\ AacIdle
  /\ VolIdle
  /\ H2Idle
  /\ BatchIdle
  /\ MarkIdle
  /\ LateIdle
  /\ thFlow = IF IsSco(profile) THEN "sco" ELSE A2dpFlow(profile, codec)
  /\ thPc = "start"
  /\ cancelstate = "enable"
  /\ lockCount = 0
  /\ locked = FALSE
  /\ stack = <<>>
  /\ cancelReq = FALSE
  /\ cleanupLock = -1
  /\ thWay = "none"

ThrNext ==
  \/ ThrStart
  \/ \E k \in 0..4 : ThrInitFail(k)
  \/ ThrInitDone
  \/ \E ev \in {"timeout", "error", "signal", "ready"} : ThrPoll(ev)
  \/ \E closed \in BOOLEAN : ThrTimeout(closed)
  \/ \E close \in BOOLEAN : ThrSigRead(close)
  \/ \E res \in {"data", "none", "fail"} : ThrRead(res)
  \/ ThrCodec
  \/ \E bw \in BtWrites : ThrWrite(bw)
  \/ \E again \in BOOLEAN : ThrSync(again)
  \/ ScoStart
  \/ \E ok \in BOOLEAN : ScoInit(ok)
  \/ ScoMsbc
  \/ \E ev \in {"timeout", "error", "ready"} : ScoPoll(ev)
  \/ \E lost \in BOOLEAN : ScoTransfer(lost)
  \/ ThrCancel
  \/ ThrCancelled

ThrSpec == ThrInit /\ [][ThrNext]_vars

(***************************************************************************)
(* The RTP sequence numbers seen by an A2DP sink (io.c:256, 307-329 for    *)
(* SBC, io.c:657, 710-743 for AAC; the two routines have the same code).   *)
(***************************************************************************)
MaxSinkPackets == 3

\* The sequence numbers the peer puts into its packets, in host order.
SinkSeqs == {0, 1, 2, 65534, 65535}

\* io.c:256: uint16_t seq_number = -1.
SinkSeqInit == Uint16(65536 - 1)

\* io.c:324-328: a number other than the expected one is reported unless
\* the expected one is 0.
SinkWarns(expected, got) == expected # got /\ expected # 0

\* What the steps of the flows added below leave alone.
OldFrame ==
  UNCHANGED <<cfgVars, state, pcmVars, sigVars, ctlVars, ioVars, lifeVars,
              rtpVars, sbcVars, aacVars, volVars, h2Vars, batchVars, markVars,
              thrVars>>
SeqFrame == OldFrame /\ UNCHANGED <<reopenVars, pauseVars, tailVars>>

\* io.c:290-354: a packet was read from the BT socket; net is its
\* rtp_header->seq_number as it is on the wire.  With the PCM closed the
\* packet is dropped and seq_number is set to -1; otherwise the number is
\* compared and stored, and the packet goes to the decoder.
SinkPacket(net) ==
  LET got == Ntohs(net)
      expected == Uint16(sink_seq + 1)
  IN
  /\ sinkN < MaxSinkPackets
  /\ sinkN' = sinkN + 1
  /\ IF ~sinkPcm
       THEN /\ sink_seq' = SinkSeqInit
            /\ sinkLast' = [recv |-> got, expected |-> expected, fresh |-> sinkFresh,
                            warned |-> FALSE, decoded |-> FALSE, handled |-> FALSE]
            /\ UNCHANGED sinkFresh
     ELSE /\ sink_seq' = IF expected # got THEN got ELSE expected
          /\ sinkLast' = [recv |-> got, expected |-> expected, fresh |-> sinkFresh,
                          warned |-> SinkWarns(expected, got), decoded |-> TRUE,
                          handled |-> TRUE]
          /\ sinkFresh' = FALSE
  /\ UNCHANGED sinkPcm
  /\ SeqFrame

\* bluealsa-dbus.c:259-279 and io.c:116-135: a client opens the PCM of the
\* sink, or the PCM is released; a period with no PCM open begins with the
\* release.
SinkPcmSet(open) ==
  /\ sinkPcm # open
  /\ sinkPcm' = open
  /\ sinkFresh' = (sinkFresh \/ ~open)
  /\ UNCHANGED <<sink_seq, sinkLast, sinkN>>
  /\ SeqFrame

SeqInit ==
  /\ profile = A2DP_SINK
  /\ codec \in VolCodecs(profile)
  /\ keep_alive = 0
  /\ state = "ACTIVE"
  /\ ioPc = "none"
  /\ btFd = 1
  /\ PlaneInit
  /\ LifeRunning
  /\ RtpIdle
  /\ SbcIdle /\ AacIdle /\ VolIdle /\ H2Idle /\ BatchIdle /\ MarkIdle /\ ThrIdle
  /\ ReopenIdle /\ PauseIdle /\ TailIdle
  /\ sink_seq = SinkSeqInit
  /\ sinkPcm \in BOOLEAN
  /\ sinkFresh = TRUE
  /\ sinkLast = NoSinkPacket
  /\ sinkN = 0

SeqNext ==
  \/ \E got \in SinkSeqs : SinkPacket(Htons(got))
  \/ \E open \in BOOLEAN : SinkPcmSet(open)

SeqSpec == SeqInit /\ [][SeqNext]_vars

(***************************************************************************)
(* An endpoint that is opened again after its release: the sessions of     *)
(* several clients on the PCM of an A2DP source (bluealsa-dbus.c:198-204,  *)
(* 253-297, io.c:76-100).  A session stands for the descriptors one Open   *)
(* created; roFd names the session whose pipe end the endpoint holds.      *)
(***************************************************************************)
MaxReopens == 3

ReopenFrame == OldFrame /\ UNCHANGED <<seqVars, pauseVars, tailVars>>

\* bluealsa-dbus.c:210-305: an Open that succeeds: the pipe and the control
\* socket are created, the endpoint takes the pipe end, PCM_OPEN is sent
\* and the watch of the control channel is installed.
RoOpen(mode) ==
  LET ep == OpenEndpoint(profile, mode)
      n == roOpens + 1
  IN
  /\ roOpens < MaxReopens
  /\ OpenCheck(profile, codec, mode, roFd) = "proceed"
  /\ roOpens' = n
  /\ roSess' = [roSess EXCEPT ![n] =
        [ep |-> ep, int |-> TRUE, cli |-> TRUE, ctl |-> TRUE, data |-> 0]]
  /\ roFd' = [roFd EXCEPT ![ep] = n]
  /\ roSigs' = Append(roSigs, [sig |-> "PCM_OPEN", fd |-> n])
  /\ UNCHANGED roLast
  /\ ReopenFrame

\* The client of session n closes its end of the PCM pipe.
RoClientClose(n) ==
  /\ n \in 1..roOpens
  /\ roSess[n].cli
  /\ roSess' = [roSess EXCEPT ![n].cli = FALSE]
  /\ UNCHANGED <<roFd, roOpens, roSigs, roLast>>
  /\ ReopenFrame

\* io.c:76-100: the I/O thread reads the PCM and finds the end of file (or a
\* closed descriptor): the endpoint is released.
RoIoRead ==
  LET r == ReadOutcome(roSess, roFd, "a2dp") IN
  /\ ReadReleases(r)
  /\ roFd["a2dp"] # NoFd
  /\ roFd' = ReleaseFds(roFd, "a2dp")
  /\ roSess' = ReleaseSess(roSess, roFd, "a2dp")
  /\ UNCHANGED <<roOpens, roSigs, roLast>>
  /\ ReopenFrame

\* bluealsa-dbus.c:198-204: the control channel of session n is at its end
\* of file: ba_transport_release_pcm(cdata->pcm), PCM_CLOSE, and the watch
\* is removed.
RoControllerEOF(n) ==
  LET ep == roSess[n].ep IN
  /\ n \in 1..roOpens
  /\ roSess[n].ctl
  /\ roFd' = ReleaseFds(roFd, ep)
  /\ roSess' = [ReleaseSess(roSess, roFd, ep) EXCEPT ![n].ctl = FALSE]
  /\ roSigs' = Append(roSigs, [sig |-> "PCM_CLOSE", fd |-> roFd[ep]])
  /\ roLast' = [n |-> n, fd |-> roFd[ep]]
  /\ UNCHANGED roOpens
  /\ ReopenFrame

ReopenInit ==
  /\ profile = A2DP_SOURCE
  /\ codec = "SBC"
  /\ keep_alive \in KeepAlives(profile)
  /\ state = "ACTIVE"
  /\ ioPc = "none"
  /\ btFd = 1
  /\ PlaneInit
  /\ LifeRunning
  /\ RtpIdle
  /\ SbcIdle /\ AacIdle /\ VolIdle /\ H2Idle /\ BatchIdle /\ MarkIdle /\ ThrIdle
  /\ SeqIdle /\ PauseIdle /\ TailIdle
  /\ roFd = [ep \in Endpoints |-> NoFd]
  /\ roSess = [n \in 1..MaxReopens |-> NoSess]
  /\ roOpens = 0
  /\ roSigs = <<>>
  /\ roLast = NoCtlEof

ReopenNext ==
  \/ \E mode \in {ModeSource, ModeSink} : RoOpen(mode)
  \/ \E n \in 1..MaxReopens : RoClientClose(n)
  \/ RoIoRead
  \/ \E n \in 1..MaxReopens : RoControllerEOF(n)

ReopenSpec == ReopenInit /\ [][ReopenNext]_vars

(***************************************************************************)
(* Pause and Resume against the loop of an A2DP source thread, followed    *)
(* statement by statement (bluealsa-dbus.c:182-191, io.c:436-580).  The    *)
(* PCM stays open and no drain is asked for, so poll() has no timeout.     *)
(***************************************************************************)
MaxPauseCmds == 2
MaxPauseData == 2

PauseFrame ==
  UNCHANGED <<cfgVars, pcmVars, nextId, lastId, ctlVars, ioVars, lifeVars, rtpVars,
              sbcVars, aacVars, volVars, h2Vars, batchVars, markVars, thrVars,
              seqVars, reopenVars, tailVars>>

\* bluealsa-dbus.c:182-191: the controller handles Pause or Resume: the
\* state is set, the signal is written and "OK" is sent.
PaCtrl(cmd) ==
  LET lg == CtrlLog(cmd) IN
  /\ paCmds < MaxPauseCmds
  /\ paCmds' = paCmds + 1
  /\ state' = IF LogHas(lg, "state:PAUSED") THEN SetState(state, "PAUSED")
              ELSE IF LogHas(lg, "state:ACTIVE") THEN SetState(state, "ACTIVE")
              ELSE state
  /\ sigq' = SigWrite(sigq, paCmds + 1, LogSignal(lg))
  /\ paAck' = IF cmd = "Pause" THEN LogHas(lg, "reply:OK")
              ELSE IF cmd = "Resume" THEN FALSE
              ELSE paAck
  /\ UNCHANGED <<paPc, paPfd, paRevents, paData, paLast, paWritten>>
  /\ PauseFrame

\* The client writes one chunk of PCM into the FIFO.
PaClientWrite ==
  /\ paWritten < MaxPauseData
  /\ paWritten' = paWritten + 1
  /\ paData' = paData + 1
  /\ UNCHANGED <<state, sigq, paPc, paPfd, paRevents, paAck, paLast, paCmds>>
  /\ PauseFrame

\* io.c:442: pfds[1].fd = t->state == TRANSPORT_ACTIVE ? t->a2dp.pcm.fd : -1,
\* and poll() is entered.
PaTop ==
  /\ paPc = "top"
  /\ paPc' = "poll"
  /\ paPfd' = (GateFd(state, 1) # NoFd)
  /\ UNCHANGED <<state, sigq, paRevents, paData, paAck, paLast, paCmds, paWritten>>
  /\ PauseFrame

\* io.c:444: poll() returns with what is ready at that moment.
PaPollReturn ==
  LET sig == sigq # <<>>
      pcm == paPfd /\ paData > 0
  IN
  /\ paPc = "poll"
  /\ sig \/ pcm
  /\ paRevents' = [sig |-> sig, pcm |-> pcm]
  /\ paPc' = "woken"
  /\ UNCHANGED <<state, sigq, paPfd, paData, paAck, paLast, paCmds, paWritten>>
  /\ PauseFrame

\* io.c:461-484: the signal pipe was reported: the signal is read; after
\* PCM_CLOSE the thread goes on to read the PCM, after any other signal it
\* goes back to the top of the loop.
PaSignal ==
  /\ paPc = "woken"
  /\ paRevents.sig
  /\ sigq' = Tail(sigq)
  /\ paPc' = IF SrcSignalReads(Head(sigq).sig) THEN "read" ELSE "top"
  /\ UNCHANGED <<state, paPfd, paRevents, paData, paAck, paLast, paCmds, paWritten>>
  /\ PauseFrame

\* io.c:486-498: io_thread_read_pcm: a chunk is taken from the FIFO, or
\* there is none (EAGAIN) and the loop continues.
PaRead ==
  /\ paPc = "read" \/ (paPc = "woken" /\ ~paRevents.sig)
  /\ IF paData > 0
       THEN /\ paData' = paData - 1
            /\ paLast' = [op |-> "read", paused |-> paAck]
            /\ paPc' = "write"
     ELSE /\ paPc' = "top"
          /\ UNCHANGED <<paData, paLast>>
  /\ UNCHANGED <<state, sigq, paPfd, paRevents, paAck, paCmds, paWritten>>
  /\ PauseFrame

\* io.c:500-580: the chunk is encoded and the packet is written to the BT
\* socket; a lost connection ends the loop.
PaWrite(bw) ==
  /\ paPc = "write"
  /\ paLast' = [op |-> "write", paused |-> paAck]
  /\ paPc' = IF BtWriteFatal(bw) THEN "exited" ELSE "top"
  /\ UNCHANGED <<state, sigq, paPfd, paRevents, paData, paAck, paCmds, paWritten>>
  /\ PauseFrame

PauseInit ==
  /\ profile = A2DP_SOURCE
  /\ codec = "SBC"
  /\ keep_alive = 0
  /\ state = "ACTIVE"
  /\ ioPc = "none"
  /\ btFd = 1
  /\ PlaneInit
  /\ LifeRunning
  /\ RtpIdle
  /\ SbcIdle /\ AacIdle /\ VolIdle /\ H2Idle /\ BatchIdle /\ MarkIdle /\ ThrIdle
  /\ SeqIdle /\ ReopenIdle /\ TailIdle
  /\ paPc = "top"
  /\ paPfd = FALSE
  /\ paRevents = NoRevents
  /\ paData = 0
  /\ paAck = FALSE
  /\ paLast = NoTransfer
  /\ paCmds = 0
  /\ paWritten = 0

PauseNext ==
  \/ \E cmd \in {"Pause", "Resume"} : PaCtrl(cmd)
  \/ PaClientWrite
  \/ PaTop
  \/ PaPollReturn
  \/ PaSignal
  \/ PaRead
  \/ \E bw \in BtWrites : PaWrite(bw)

PauseSpec == PauseInit /\ [][PauseNext]_vars

(***************************************************************************)
(* Bus registration seen call by call (bluealsa-dbus.c:450-493, 520-538):  *)
(* rgLog keeps, for every call of register or unregister, what the         *)
(* reference count and the number of emitted signals were before it.       *)
(***************************************************************************)
MaxRegCalls == 4

RegFrame ==
  UNCHANGED <<cfgVars, state, pcmVars, sigVars, ctlVars, ioVars, rtpVars,
              thread, running, nCreate, createRet,
              sbcVars, aacVars, volVars, h2Vars, batchVars, markVars, thrVars,
              seqVars, reopenVars, pauseVars, callVars, mixVars, aplayVars>>

RgEntry(op, ok) == [op |-> op, ok |-> ok, refs |-> refs, nev |-> Len(events)]

\* bluealsa_dbus_transport_register: ba_transport_ref(t) is an argument of
\* g_dbus_connection_register_object and is taken whether the export works
\* or not; the id is stored (0 on failure); for the transport itself PCMAdded
\* is emitted, for its RFCOMM companion (462-475) nothing is.
RgRegister(ok) ==
  LET id == IF ok THEN 1 ELSE 0 IN
  /\ Len(rgLog) < MaxRegCalls
  /\ refs > 0
  /\ rgLog' = Append(rgLog, RgEntry("register", ok))
  /\ ba_dbus_id' = id
  /\ refs' = TransportRef(refs)
  /\ events' = IF profile = RFCOMM THEN events ELSE RegisterEmits(events, id)
  /\ RegFrame

\* bluealsa_dbus_transport_unregister: nothing is done for id 0; otherwise
\* the object is removed, the id cleared, PCMRemoved emitted unless the
\* transport is RFCOMM, and the reference dropped.
RgUnregister ==
  /\ Len(rgLog) < MaxRegCalls
  /\ refs > 0
  /\ rgLog' = Append(rgLog, RgEntry("unregister", TRUE))
  /\ IF ba_dbus_id = 0
       THEN UNCHANGED <<ba_dbus_id, events, refs>>
       ELSE /\ ba_dbus_id' = 0
            /\ events' = IF UnregisterEmits(profile)
                           THEN Emit(events, "PCMRemoved", {}) ELSE events
            /\ refs' = TransportUnref(refs)
  /\ RegFrame

RegInit ==
  /\ profile \in Profiles
  /\ codec \in LifeCodecs(profile)
  /\ keep_alive = 0
  /\ state = "IDLE"
  /\ ioPc = "none"
  /\ btFd = NoFd
  /\ PlaneInit
  /\ ba_dbus_id = 0
  /\ events = <<>>
  /\ refs = 1
  /\ thread = "main"
  /\ running = {}
  /\ nCreate = 0
  /\ createRet = 0
  /\ RtpIdle
  /\ SbcIdle /\ AacIdle /\ VolIdle /\ H2Idle /\ BatchIdle /\ MarkIdle /\ ThrIdle
  /\ SeqIdle /\ ReopenIdle /\ PauseIdle /\ CallIdle /\ MixIdle /\ AplayIdle
  /\ rgLog = <<>>

RegNext ==
  \/ \E ok \in BOOLEAN : RgRegister(ok)
  \/ RgUnregister

RegSpec == RegInit /\ [][RegNext]_vars

(***************************************************************************)
(* The SCO loop with the call indicators of the RFCOMM transport           *)
(* (io.c:1675-1691): hfpCall is FALSE when inds[HFP_IND_CALL] is           *)
(* HFP_IND_CALL_NONE and inds[HFP_IND_CALLSETUP] is HFP_IND_CALLSETUP_NONE;*)
(* the indicators keep their value for the whole run.                      *)
(***************************************************************************)
ScoLinkInit ==
  /\ profile \in {HFP_AG, HFP_HF}
  /\ codec \in Codecs(profile)
  /\ keep_alive = 0
  /\ DataInit
  /\ LifeRunning
  /\ RtpIdle
  /\ SbcIdle /\ AacIdle /\ VolIdle /\ H2Idle /\ BatchIdle /\ MarkIdle /\ ThrIdle
  /\ SeqIdle /\ ReopenIdle /\ PauseIdle /\ RegIdle /\ MixIdle /\ AplayIdle
  /\ hfpCall \in BOOLEAN

ScoLinkNext ==
  \/ Control
  \/ Client
  \/ IoTop
  \/ \E acq \in BOOLEAN : IoScoSignal(acq, hfpCall)
  \/ \E br \in BtReads, bw \in BtWrites : IoScoData(br, bw)

ScoLinkSpec == ScoLinkInit /\ [][ScoLinkNext]_vars

(***************************************************************************)
(* The ALSA control plug-in's element callbacks (asound/bluealsa-ctl.c:    *)
(* 456-466, 486-657).  An element is [type, vol]; C index key is element   *)
(* key + 1 of elem_list.  An access to elem_list[key] outside the array is *)
(* undefined: the callback may return anything or not return at all.       *)
(***************************************************************************)
MaxElems == 2
MaxKey == 3

ElemTypes == {"BATTERY", "SWITCH", "VOLUME"}
Elems == [type : ElemTypes, vol : 0..1]
ElemLists == UNION {[1..n -> Elems] : n \in 0..MaxElems}
MixerCallbacks ==
  {"elem_list", "get_attribute", "get_integer_info", "read_integer",
   "write_integer"}
OutOfBounds == {"0", "EINVAL", "crash"}

MixFrame ==
  UNCHANGED <<cfgVars, state, pcmVars, sigVars, ctlVars, ioVars, lifeVars,
              rtpVars, sbcVars, aacVars, volVars, h2Vars, batchVars, markVars,
              thrVars, seqVars, reopenVars, pauseVars, regVars, callVars,
              aplayVars>>

\* bluealsa-ctl.c:459, 490, 521, 553, 601: the test every callback makes
\* before it uses key as an index.
KeyRefused(key, size) == key > size

\* What a callback returns for an element of the list (bluealsa-ctl.c:
\* 462-465, 496-514, 527-547, 559-595, 608-643).
ElemResult(cb, elem) ==
  CASE cb = "get_integer_info" /\ elem.type = "SWITCH" -> "EINVAL"
    [] cb = "write_integer" /\ elem.type = "BATTERY" -> "EINVAL"
    [] OTHER -> "0"

\* bluealsa_write_integer stores value in the element's PCM.
ElemWrite(elem, value) ==
  IF elem.type = "BATTERY" THEN elem ELSE [elem EXCEPT !.vol = value]

\* One callback with the given key (and value, for write_integer).
MixerCallback(cb, key, value, oob) ==
  LET size == Len(elem_list)
      refused == KeyRefused(key, size)
      inside == key < size
      ret == IF refused THEN "EINVAL"
             ELSE IF inside THEN ElemResult(cb, elem_list[key + 1])
             ELSE IF cb = "elem_list" /\ oob = "EINVAL" THEN "0"
             ELSE oob
  IN
  /\ mxLast' = [cb |-> cb, key |-> key, size |-> size, ret |-> ret,
                accessed |-> ~refused]
  /\ elem_list' = IF ~refused /\ inside /\ cb = "write_integer"
                    THEN [elem_list EXCEPT ![key + 1] = ElemWrite(@, value)]
                    ELSE elem_list
  /\ MixFrame

\* bluealsa_create_elem_list (303-434): the list is built anew from the
\* PCMs that exist now.
CreateElemList(list) ==
  /\ list # elem_list
  /\ elem_list' = list
  /\ UNCHANGED mxLast
  /\ MixFrame

MixInit ==
  /\ profile = A2DP_SOURCE
  /\ codec = "SBC"
  /\ keep_alive = 0
  /\ state = "IDLE"
  /\ ioPc = "none"
  /\ btFd = NoFd
  /\ PlaneInit
  /\ LifeRunning
  /\ RtpIdle
  /\ SbcIdle /\ AacIdle /\ VolIdle /\ H2Idle /\ BatchIdle /\ MarkIdle /\ ThrIdle
  /\ SeqIdle /\ ReopenIdle /\ PauseIdle /\ RegIdle /\ CallIdle /\ AplayIdle
  /\ elem_list \in ElemLists
  /\ mxLast = NoCallback

MixNext ==
  \/ \E cb \in MixerCallbacks, key \in 0..MaxKey, value \in 0..1,
        oob \in OutOfBounds : MixerCallback(cb, key, value, oob)
  \/ \E list \in ElemLists : CreateElemList(list)

MixSpec == MixInit /\ [][MixNext]_vars

(***************************************************************************)
(* bluealsa-aplay (utils/aplay.c): the PCM list, the workers array and the *)
(* worker threads.  A thread keeps the pointer w it was started with: the  *)
(* allocation and the slot of the array its record was in then.            *)
(***************************************************************************)
MaxPcms == 2
MaxStarts == 3
MaxAdded == 3
WorkersGrow == 4

Paths == 1..MaxPcms
NoWorker == [path |-> 0, active |-> FALSE, thread |-> 0]

AplayFrame ==
  UNCHANGED <<cfgVars, state, pcmVars, sigVars, ctlVars, ioVars, lifeVars,
              rtpVars, sbcVars, aacVars, volVars, h2Vars, batchVars, markVars,
              thrVars, seqVars, reopenVars, pauseVars, regVars, callVars,
              mixVars>>

\* aplay.c:222-231 get_ba_pcm: whether a record with this path is found
\* (NULL when it is not).
GetBaPcm(path) == \E i \in 1..Len(ba_pcms) : ba_pcms[i] = path

\* aplay.c:233-249 get_active_worker: the slot of the first active worker,
\* 0 for NULL.
GetActiveWorker ==
  IF \E i \in 1..workers_count : workers[i].active
    THEN CHOOSE i \in 1..workers_count :
           /\ workers[i].active
           /\ \A j \in 1..(i - 1) : ~workers[j].active
    ELSE 0

\* The slot of the worker for this path among workers[0..workers_count-1],
\* 0 when there is none (the loops at 480-482 and 520-521).
WorkerSlot(path) ==
  IF \E i \in 1..workers_count : workers[i].path = path
    THEN CHOOSE i \in 1..workers_count : workers[i].path = path
    ELSE 0

\* aplay.c:477-515 supervise_pcm_worker_start.  moved: realloc gave another
\* block; created: pthread_create worked.
WorkerStart(path, moved, created) ==
  LET cnt == workers_count + 1
      grow == workers_size < cnt
      size == IF grow THEN workers_size + WorkersGrow ELSE workers_size
      block == IF grow /\ (wBlock = 0 \/ moved) THEN wBlock + 1 ELSE wBlock
      arr == IF grow
               THEN [i \in 1..size |->
                       IF i <= workers_size THEN workers[i] ELSE NoWorker]
               ELSE workers
      tid == nStarts + 1
      rec == [path |-> path, active |-> FALSE,
              thread |-> IF created THEN tid ELSE 0]
  IN
  IF WorkerSlot(path) # 0
    THEN UNCHANGED <<workers, workers_count, workers_size, wBlock, wk, nStarts>>
    ELSE /\ workers' = [arr EXCEPT ![cnt] = rec]
         /\ workers_size' = size
         /\ wBlock' = block
         /\ workers_count' = IF created THEN cnt ELSE cnt - 1
         /\ wk' = IF created
                    THEN Append(wk, [pc |-> "start", path |-> path,
                                     slot |-> cnt, block |-> block,
                                     tmo |-> FALSE])
                    ELSE wk
         /\ nStarts' = IF created THEN tid ELSE nStarts

\* aplay.c:578-590: PCMAdded: the PCM is appended to ba_pcms and
\* supervise_pcm_worker starts a worker for it.
ApAdded(path, moved, created) ==
  /\ ~apLast.crashed
  /\ Len(ba_pcms) < MaxAdded
  /\ nStarts < MaxStarts
  /\ ba_pcms' = Append(ba_pcms, path)
  /\ WorkerStart(path, moved, created)
  /\ apLast' = [NoSignal EXCEPT !.op = "PCMAdded", !.known = TRUE]
  /\ UNCHANGED pcm_mixer
  /\ AplayFrame

\* aplay.c:517-530 supervise_pcm_worker_stop for a PCM that was found: the
\* worker's thread is cancelled and joined, the last record is copied over
\* the worker's, and the count goes down.  pthread_join returns when the
\* thread has reached poll() (or has ended by itself).
WorkerStop(path) ==
  LET i == WorkerSlot(path)
      tid == workers[i].thread
  IN
  IF i = 0
    THEN UNCHANGED <<workers, workers_count, wk>>
    ELSE /\ wk[tid].pc \in {"poll", "exited"}
         /\ wk' = [wk EXCEPT ![tid].pc = "cancelled"]
         /\ workers' = [workers EXCEPT ![i] = workers[workers_count]]
         /\ workers_count' = workers_count - 1

\* aplay.c:592-601: PCMRemoved: supervise_pcm_worker_stop(get_ba_pcm(path)).
\* With no record for the path the argument is NULL, and the loop at 520-521
\* reads ba_pcm->pcm_path for every worker there is; ub is what that read
\* through NULL does.
ApRemoved(path, ub) ==
  /\ ~apLast.crashed
  /\ IF GetBaPcm(path)
       THEN /\ WorkerStop(path)
            /\ apLast' = [NoSignal EXCEPT !.op = "PCMRemoved", !.known = TRUE,
                            !.stopped = IF WorkerSlot(path) # 0 THEN 1 ELSE 0]
       ELSE /\ apLast' = [NoSignal EXCEPT !.op = "PCMRemoved",
                            !.deref = workers_count > 0,
                            !.crashed = workers_count > 0 /\ ub = "crash"]
            /\ UNCHANGED <<workers, workers_count, wk>>
  /\ UNCHANGED <<pcm_mixer, ba_pcms, workers_size, wBlock, nStarts>>
  /\ AplayFrame

\* The worker thread t writes w->active.
SetActive(t, v) ==
  IF wk[t].block = wBlock
    THEN [workers EXCEPT ![wk[t].slot].active = v]
    ELSE workers

WkFrame ==
  /\ UNCHANGED <<pcm_mixer, ba_pcms, workers_count, workers_size, wBlock,
                 nStarts, apLast>>
  /\ AplayFrame

\* aplay.c:316-322: the worker opens its BlueALSA PCM.
WkOpen(t, ok) ==
  /\ ~apLast.crashed
  /\ wk[t].pc = "start"
  /\ wk' = [wk EXCEPT ![t].pc = IF ok THEN "poll" ELSE "exited"]
  /\ UNCHANGED workers
  /\ WkFrame

\* aplay.c:349-381: poll() reports audio in the FIFO and it is read.
WkAudio(t) ==
  /\ ~apLast.crashed
  /\ wk[t].pc = "poll"
  /\ wk' = [wk EXCEPT ![t].pc = "got"]
  /\ UNCHANGED workers
  /\ WkFrame

\* aplay.c:383-400: with the mixer off the audio is dropped when another
\* worker is active.  pause: the pause command was due (timeout = 100).
WkCheck(t, pause) ==
  LET a == GetActiveWorker
      other == a # 0 /\ ~(wk[t].block = wBlock /\ a = wk[t].slot)
  IN
  /\ ~apLast.crashed
  /\ wk[t].pc = "got"
  /\ wk' = IF ~pcm_mixer /\ other
             THEN [wk EXCEPT ![t].pc = "poll", ![t].tmo = @ \/ pause]
             ELSE [wk EXCEPT ![t].pc = "open"]
  /\ UNCHANGED workers
  /\ WkFrame

\* aplay.c:402-446: the ALSA device is opened if need be (opened: it could
\* be), the worker is marked active and the timeout is set to 500 ms.
WkPlay(t, opened) ==
  /\ ~apLast.crashed
  /\ wk[t].pc = "open"
  /\ IF opened
       THEN /\ workers' = SetActive(t, TRUE)
            /\ wk' = [wk EXCEPT ![t].pc = "poll", ![t].tmo = TRUE]
       ELSE /\ wk' = [wk EXCEPT ![t].pc = "poll"]
            /\ UNCHANGED workers
  /\ WkFrame

\* aplay.c:360-372: poll() timed out: the worker is marked inactive.
WkTimeout(t) ==
  /\ ~apLast.crashed
  /\ wk[t].pc = "poll"
  /\ wk[t].tmo
  /\ workers' = SetActive(t, FALSE)
  /\ wk' = [wk EXCEPT ![t].tmo = FALSE]
  /\ WkFrame

\* aplay.c:374-376, 470-475: the FIFO was closed on the writing side: the
\* thread ends; its record stays in the array.
WkHup(t) ==
  /\ ~apLast.crashed
  /\ wk[t].pc = "poll"
  /\ wk' = [wk EXCEPT ![t].pc = "exited"]
  /\ UNCHANGED workers
  /\ WkFrame

AplayInit ==
  /\ profile = A2DP_SINK
  /\ codec = "SBC"
  /\ keep_alive = 0
  /\ state = "IDLE"
  /\ ioPc = "none"
  /\ btFd = NoFd
  /\ PlaneInit
  /\ LifeRunning
  /\ RtpIdle
  /\ SbcIdle /\ AacIdle /\ VolIdle /\ H2Idle /\ BatchIdle /\ MarkIdle /\ ThrIdle
  /\ SeqIdle /\ ReopenIdle /\ PauseIdle /\ RegIdle /\ CallIdle /\ MixIdle
  /\ pcm_mixer \in BOOLEAN
  /\ ba_pcms = <<>>
  /\ workers = <<>>
  /\ workers_count = 0
  /\ workers_size = 0
  /\ wBlock = 0
  /\ wk = <<>>
  /\ nStarts = 0
  /\ apLast = NoSignal

AplayNext ==
  \/ \E path \in Paths, moved, created \in BOOLEAN : ApAdded(path, moved, created)
  \/ \E path \in Paths, ub \in {"crash", "none"} : ApRemoved(path, ub)
  \/ \E t \in 1..Len(wk), ok \in BOOLEAN : WkOpen(t, ok)
  \/ \E t \in 1..Len(wk) : WkAudio(t)
  \/ \E t \in 1..Len(wk), pause \in BOOLEAN : WkCheck(t, pause)
  \/ \E t \in 1..Len(wk), opened \in BOOLEAN : WkPlay(t, opened)
  \/ \E t \in 1..Len(wk) : WkTimeout(t)
  \/ \E t \in 1..Len(wk) : WkHup(t)

AplaySpec == AplayInit /\ [][AplayNext]_vars

(***************************************************************************)
(* Properties of Open.                                                     *)
(***************************************************************************)
\* The step is a call of Open, and what it was asked for.
OpenStep == last' # last /\ last'.op = "Open"
OpenMode == last'.arg[1]
OpenEp == OpenEndpoint(profile, OpenMode)
OpenLeavesAll ==
  UNCHANGED <<state, pcmFd, nOpens, sess, sigq, nextId, lastId, btFd>>

\* Position of an effect in a log, 0 if it is not there.
LogIdx(lg, x) == IF LogHas(lg, x) THEN CHOOSE i \in 1..Len(lg) : lg[i] = x ELSE 0

\* C1: an Open on an endpoint whose fd is not -1 fails with the busy error,
\* and the endpoint fd, the transport state, the signal pipe, the sessions
\* and the BT socket are as before: nothing is created, sent or acquired.
C1_BusyOpenChangesNothing ==
  [][ OpenStep =>
        /\ last'.res = "FAILED_EBUSY" =>
             /\ pcmFd[OpenEp] # NoFd
             /\ last'.log = <<"error">>
             /\ OpenLeavesAll
        /\ ( /\ OpenMode \in {ModeSource, ModeSink}
             /\ OpenEp # "none"
             /\ ~(IsSco(profile) /\ codec = "UNDEFINED")
             /\ pcmFd[OpenEp] # NoFd ) => last'.res = "FAILED_EBUSY"
    ]_vars

C1_Witness ==
  /\ last.op = "Open" /\ last.res = "FAILED_EBUSY"
  /\ pcmFd[OpenEndpoint(profile, last.arg[1])] # NoFd

\* C2: a successful Open stores the internal pipe end in the endpoint fd,
\* then writes PCM_OPEN to the signal pipe, then (A2DP source only) calls
\* acquire, and only then returns the descriptors; acquire is never called
\* for an A2DP sink or an SCO transport.
C2_OpenOrder ==
  [][ (OpenStep /\ last'.res = "fds") =>
        LET lg == last'.log IN
        /\ 0 < LogIdx(lg, "store_fd")
        /\ LogIdx(lg, "store_fd") < LogIdx(lg, "sig:PCM_OPEN")
        /\ LogIdx(lg, "sig:PCM_OPEN") < LogIdx(lg, "return_fds")
        /\ LogHas(lg, "acquire") <=> profile = A2DP_SOURCE
        /\ LogHas(lg, "acquire") =>
             /\ LogIdx(lg, "sig:PCM_OPEN") < LogIdx(lg, "acquire")
             /\ LogIdx(lg, "acquire") < LogIdx(lg, "return_fds")
        /\ pcmFd[OpenEp] = NoFd /\ pcmFd'[OpenEp] = nOpens'
        /\ sess'[nOpens'].int /\ sess'[nOpens'].cli
        /\ sigq' = Append(sigq, [sig |-> "PCM_OPEN", id |-> nextId])
        /\ profile # A2DP_SOURCE => btFd' = btFd
    ]_vars

C2_Witness ==
  /\ last.op = "Open" /\ last.res = "fds"
  /\ LogHas(last.log, "acquire")
  /\ pcmFd[last.ep] # NoFd

\* C3: an Open with a mode string other than "source" or "sink" fails with
\* invalid-arguments; with a mode the transport cannot serve it fails with
\* not-supported; on an SCO transport whose codec is undefined it fails; and
\* in each case no descriptor is created, no signal is sent and the
\* endpoint fds stay as they were.
C3_RefusedOpen ==
  [][ OpenStep =>
        /\ OpenMode \notin {ModeSource, ModeSink} => last'.res = "INVALID_ARGS"
        /\ ( /\ OpenMode \in {ModeSource, ModeSink}
             /\ ~IsSco(profile)
             /\ \/ profile = RFCOMM
                \/ OpenMode = ModeSource /\ profile # A2DP_SOURCE
                \/ OpenMode = ModeSink /\ profile # A2DP_SINK )
           => last'.res = "NOT_SUPPORTED"
        /\ ( /\ OpenMode \in {ModeSource, ModeSink}
             /\ IsSco(profile) /\ codec = "UNDEFINED" )
           => last'.res = "FAILED_CODEC"
        /\ last'.res \in {"INVALID_ARGS", "NOT_SUPPORTED", "FAILED_CODEC"} =>
             /\ OpenLeavesAll
             /\ last'.log = <<"error">>
             /\ OpenEp # "none" /\ last'.res # "INVALID_ARGS"
                  => pcmFd'[OpenEp] = NoFd
    ]_vars

C3_Witness ==
  /\ last.op = "Open"
  /\ last.res \in {"NOT_SUPPORTED", "FAILED_CODEC"}
  /\ nextId = 1 /\ nOpens = 0

(***************************************************************************)
(* Properties of the control channel.                                      *)
(***************************************************************************)
\* The step is the controller's handling of a frame, or its return from a drain.
CtrlStep == last' # last /\ last'.op = "Ctrl"

Replies == {"reply:OK", "reply:Invalid"}
ReplyCount(lg) == Cardinality({i \in 1..Len(lg) : lg[i] \in Replies})

\* C4: a frame whose payload is not exactly Drain, Drop, Pause or Resume is
\* answered "Invalid", sends no signal and changes no state.
C4_OnlyExactKeywords ==
  (last.op = "Ctrl" /\ last.arg \notin Keywords) =>
    /\ last.res = "Invalid"
    /\ last.log = <<"reply:Invalid">>

\* C5: "OK" is written for Drain only after the drain has returned (the
\* condition was signalled or the wait timed out), for Drop, Pause and
\* Resume only after their signal was written to the signal pipe, and every
\* command gets exactly one reply.
C5_ReplyAfterEffect ==
  /\ [](last.op = "Ctrl" =>
          LET lg == last.log
              n == Len(lg)
          IN
          /\ ctlPc = "draining" <=> last.res = "waiting"
          /\ ctlPc = "draining" =>
               ReplyCount(lg) = 0 /\ LogHas(lg, "sig:PCM_SYNC")
          /\ ctlPc = "idle" => ReplyCount(lg) = 1 /\ lg[n] \in Replies
          /\ last.res = "Drain" =>
               /\ lg[n] = "reply:OK"
               /\ lg[n - 1] \in {"drain:signalled", "drain:timeout"}
               /\ LogIdx(lg, "sig:PCM_SYNC") = 1
               /\ lg[n - 1] = "drain:signalled" => drainReq = "signalled"
          /\ last.res = "Drop" => lg = <<"sig:PCM_DROP", "reply:OK">>
          /\ last.res = "Pause" =>
               lg[n] = "reply:OK" /\ LogIdx(lg, "sig:PCM_PAUSE") = n - 1
          /\ last.res = "Resume" =>
               lg[n] = "reply:OK" /\ LogIdx(lg, "sig:PCM_RESUME") = n - 1)
  /\ [][ /\ (CtrlStep /\ last'.res \in {"Drop", "Pause", "Resume"}) =>
              sigq' = Append(sigq, [sig |-> LogSignal(last'.log), id |-> nextId])
         /\ (CtrlStep /\ last'.res = "waiting") =>
              /\ sigq' = Append(sigq, [sig |-> "PCM_SYNC", id |-> nextId])
              /\ drainReq' = "pending"
         /\ (CtrlStep /\ last'.res = "Drain") =>
              /\ ctlPc = "draining" /\ ctlPc' = "idle"
              /\ last.res = "waiting"
              /\ sigq' = sigq
              /\ LogHas(last'.log, "drain:signalled") <=> drainReq = "signalled"
       ]_vars

C5_Witness ==
  /\ last.op = "Ctrl" /\ last.res = "Drain"
  /\ LogHas(last.log, "drain:signalled")
  /\ profile = A2DP_SOURCE

(***************************************************************************)
(* Properties of the transport state.                                      *)
(***************************************************************************)
\* The step writes signal s to the signal pipe, or reads it from the pipe.
StepSignal(s) ==
  \/ sigq' = Append(sigq, [sig |-> s, id |-> nextId])
  \/ sigq # <<>> /\ Head(sigq).sig = s /\ sigq' = Tail(sigq)

C7_SignalsInOrder ==
  /\ [](/\ \A i \in 1..Len(sigq) : sigq[i].id = lastId + i
        /\ nextId = lastId + Len(sigq) + 1)
  /\ [][ /\ lastId' # lastId =>
              /\ sigq # <<>>
              /\ lastId' = Head(sigq).id
              /\ sigq' = Tail(sigq)
              /\ ioPc = "poll" /\ ioPc' # "poll"
              /\ ioEvt'.kind = "signal" /\ ioEvt'.sig = Head(sigq).sig
         /\ (ioPc = "poll" /\ ioPc' # "poll" /\ sigq # <<>>) =>
              lastId' = lastId + 1
         /\ (ioPc = "poll" /\ ioPc' # "poll" /\ lastId' = lastId) =>
              ioEvt'.kind \in {"data", "timeout"} /\ ioEvt'.sig = "none"
         /\ lastId' = lastId =>
              /\ Len(sigq') >= Len(sigq)
              /\ SubSeq(sigq', 1, Len(sigq)) = sigq
       ]_vars

C7_Witness ==
  /\ Len(sigq) >= 1
  /\ lastId >= 1
  /\ ioEvt.kind = "signal"
  /\ ioPc = "poll"
  /\ DataReady

\* Some data descriptor takes part in the current poll().
PollsData ==
  pfds.pcm_in # NoFd \/ pfds.pcm_out # NoFd \/ pfds.bt_in # NoFd \/ pfds.bt_out # NoFd

C9_DrainedOnlyOnTimeout ==
  (ioEvt.drained /\ drainReq = "signalled") =>
    /\ ioEvt.kind = "timeout"
    /\ ioEvt.timeout = DrainPollTimeout
    /\ ioEvt.queued = 0

EventIdx(sig) == {i \in 1..Len(events) : events[i].sig = sig}

\* C11: exactly one PCMAdded is emitted for the transport's path and it
\* precedes every PropertiesChanged, whatever the sequence of register,
\* update and unregister calls: no second PCMAdded, and no PropertiesChanged
\* without an earlier PCMAdded.  (Refuted: neither function looks at
\* t->ba_dbus_id.)
C11_OneAddedBeforeChanges ==
  /\ Cardinality(EventIdx("PCMAdded")) <= 1
  /\ \A i \in EventIdx("PropertiesChanged") :
       \E j \in EventIdx("PCMAdded") : j < i

\* C12: a registered transport that is not RFCOMM emits one PCMRemoved when
\* it is unregistered, however often unregister is called, and PCMRemoved
\* is the last event of the transport (no PropertiesChanged or PCMAdded
\* follows it); an RFCOMM transport emits no PCMRemoved.  (Refuted: update
\* and register emit their signals after the transport was unregistered.)
C12_RemovedOnceAndLast ==
  /\ profile = RFCOMM => EventIdx("PCMRemoved") = {}
  /\ Cardinality(EventIdx("PCMRemoved")) <= 1
  /\ \A i \in EventIdx("PCMRemoved") : i = Len(events)

\* C13: at most one I/O thread of the transport runs at any time, whatever
\* the sequence of io_thread_create calls and thread returns: no thread is
\* started while an earlier one is still running.  (Refuted:
\* io_thread_create starts a thread without looking at t->thread.)
C13_AtMostOneThread == Cardinality(running) <= 1

\* A step that is one call of io_thread_create.
CreateStep == nCreate' = nCreate + 1

\* C15: io_thread_create takes exactly one reference for the thread it
\* starts, so the count stays above zero while a thread it started has not
\* returned; when pthread_create fails the reference is given back (the
\* count is what it was before the call) and t->thread is the main thread's
\* handle; when there is no routine for the profile and codec the call
\* returns -1, starts no thread and takes no reference.
C15_CreateTakesOneRef ==
  /\ [](refs >= 1 + Cardinality(running))
  /\ [][CreateStep =>
          /\ createRet' \in {0, -1}
          /\ Routine(profile, codec) = "NULL" =>
               /\ createRet' = -1
               /\ UNCHANGED <<refs, thread, running>>
          /\ createRet' = -1 /\ Routine(profile, codec) # "NULL" =>
               /\ refs' = refs
               /\ thread' = "main"
               /\ running' = running
          /\ createRet' = 0 =>
               /\ refs' = refs + 1
               /\ thread' \notin running
               /\ running' = running \cup {thread'}]_vars

\* A thread was started by a first call and a second call failed in
\* pthread_create.
C15_Witness ==
  /\ Routine(profile, codec) # "NULL"
  /\ nCreate = 2
  /\ createRet = -1
  /\ running = {1}
  /\ thread = "main"
  /\ refs = 2

(***************************************************************************)
(* Properties of the end of an I/O thread and of the release of endpoints. *)
(***************************************************************************)
\* A step in which the I/O thread leaves its loop.
ThreadExits == ioPc # "exited" /\ ioPc' = "exited"

\* A step that is one pass of the I/O thread through poll().
LoopPass == ioPc = "poll" /\ ioPc' # "poll"

\* C14 as stated: the I/O thread of a transport keeps running; it does not
\* end because the client closed its PCM, a drain completed or the
\* keep-alive time expired, that is, never on an expired poll timeout.
\* (Refuted: the source loop ends on a timeout that finds the PCM closed.)
C14_ThreadSurvivesTimeouts == ioPc = "exited" => ioEvt.kind # "timeout"

\* C14, amended: the thread does not end when the client closes its PCM (a
\* read that yields EOF or EBADF) nor when a timeout expires while the PCM
\* is open (a completed drain); an A2DP source thread ends when a poll
\* timeout expires and finds the PCM closed (the keep-alive time, of any
\* value, or the drain timeout), or when a write to the BT socket fails
\* with ECONNRESET/ENOTCONN, an A2DP sink thread when the BT socket reports
\* end of file; the SCO thread does not end by itself.
C14_ThreadEndsOnIdleTimeoutOrPeerGone ==
  /\ [][ThreadExits =>
          \/ /\ profile = A2DP_SOURCE
             /\ ioEvt'.kind = "timeout"
             /\ poll_timeout # NoTimeout
             /\ pcmFd["a2dp"] = NoFd
          \/ /\ profile = A2DP_SOURCE
             /\ ioEvt'.read = "data"
             /\ ioEvt'.bt = "reset"
          \/ /\ profile = A2DP_SINK
             /\ ioEvt'.read = "eof"]_vars
  /\ [][LoopPass /\ profile = A2DP_SOURCE /\ ioEvt'.kind = "timeout"
          /\ pcmFd["a2dp"] # NoFd => ioPc' = "top"]_vars
  /\ [][LoopPass /\ profile = A2DP_SOURCE /\ ioEvt'.read \in {"eof", "ebadf"}
          => ioPc' = "top"]_vars

\* A source thread ended when a keep-alive time of one second expired.
C14_Witness ==
  /\ profile = A2DP_SOURCE
  /\ keep_alive = 1
  /\ ioPc = "exited"
  /\ ioEvt.kind = "timeout"
  /\ ioEvt.timeout = KeepAliveTimeout(1)

ReleasedAlive(ep) ==
  /\ pcmFd[ep] # NoFd
  /\ pcmFd'[ep] = NoFd
  /\ ioPc' = "top"
  /\ ba_dbus_id' # 0
  /\ \E mode \in Modes :
       /\ OpenEndpoint(profile, mode) = ep
       /\ OpenCheck(profile, codec, mode, pcmFd') = "proceed"

\* The write to the client's FIFO in this pass of the sink loop fails with
\* EPIPE: a packet was decoded and the reader is gone.
SinkEpipe ==
  /\ profile = A2DP_SINK
  /\ ioEvt'.read = "bt"
  /\ pcmFd["a2dp"] # NoFd
  /\ ~sess[pcmFd["a2dp"]].cli

C19_ReleaseAfterKeepAlive ==
  profile = A2DP_SOURCE /\ keep_alive = 1 /\ ioPc = "exited"
    /\ ioEvt.kind = "timeout"
    => ioEvt.timeout = KeepAliveTimeout(keep_alive)

(***************************************************************************)
(* Properties of the RTP sequence numbers.                                 *)
(***************************************************************************)
\* The sequence numbers of the packets that were written.
RECURSIVE WrittenSeqs(_)
WrittenSeqs(ps) ==
  IF ps = <<>> THEN <<>>
  ELSE IF Head(ps).res = "ok" THEN <<Head(ps).seq>> \o WrittenSeqs(Tail(ps))
  ELSE WrittenSeqs(Tail(ps))

\* The numbers of sq are consecutive modulo 65536.
Consecutive(sq) == \A i \in 1..(Len(sq) - 1) : sq[i + 1] = (sq[i] + 1) % 65536

\* C20 as stated: the sequence numbers of the packets actually written to
\* the BT socket are consecutive modulo 65536, also across write attempts
\* that failed without ending the loop.  (Refuted: a failed attempt uses up
\* its number.)
C20_WrittenConsecutive == Consecutive(WrittenSeqs(packets))

\* C20, amended: the sequence numbers of successive write attempts (SBC
\* packets, AAC fragments, LDAC packets) are consecutive modulo 65536, with
\* pause and resume in between or not; the packets written are consecutive
\* as long as no attempt failed, and every failed attempt that does not end
\* the loop leaves a gap of one in the numbers written.
C20_AttemptsConsecutive ==
  /\ Consecutive([i \in 1..Len(packets) |-> packets[i].seq])
  /\ \A i \in 1..Len(packets) : packets[i].seq \in 0..65535
  /\ (\A i \in 1..Len(packets) : packets[i].res = "ok")
       => Consecutive(WrittenSeqs(packets))
  /\ \A i \in 1..(Len(packets) - 2) :
       packets[i].res = "ok" /\ packets[i + 1].res = "err"
         /\ packets[i + 2].res = "ok"
         => packets[i + 2].seq = (packets[i].seq + 2) % 65536

\* Three AAC packets numbered across the wrap while the transport is
\* paused again; the second write failed.
C20_Witness ==
  /\ codec = "AAC"
  /\ state = "PAUSED"
  /\ packets = <<[seq |-> 65535, res |-> "ok"], [seq |-> 0, res |-> "err"],
                 [seq |-> 1, res |-> "ok"]>>


(***************************************************************************)
(* Properties of the SBC source batch.                                     *)
(***************************************************************************)
\* The SBC frames a packet carries, by its length.
FramesCarried(pkt) == (pkt.len - pkt.hdr) \div sbcCfg.frame_len

\* C21: every packet the SBC source writes to the BT socket begins with the
\* 12-byte RTP header and the 1-byte media header, is at most mtu_write
\* bytes long, carries a whole number of SBC frames, and the frame count of
\* its media header is the number of frames it carries.  (Refuted: the
\* batch may hold more frames than the count field can tell.)
C21_PacketShape ==
  sbcEvt.wrote =>
    /\ sbcPkt.hdr = 12 + 1
    /\ sbcPkt.len >= sbcPkt.hdr
    /\ sbcPkt.len <= MtuWrite(sbcCfg)
    /\ (sbcPkt.len - sbcPkt.hdr) % sbcCfg.frame_len = 0
    /\ sbcPkt.frame_count = FramesCarried(sbcPkt)

\* C26: the SBC source sends nothing before one codesize of PCM is
\* buffered: a read that leaves less than one codesize in the buffer causes
\* no BT write and uses up no sequence number, and no packet with a frame
\* count of zero is written.  (Refuted: every read that returned data is
\* followed by a numbered write.)
C26_AccumulatesBeforeSending ==
  [][/\ (sbcEvt'.read > 0 /\ pcmLen + sbcEvt'.read < sbcCfg.codesize)
          => (seq_number' = seq_number /\ packets' = packets)
     /\ (packets' # packets) => sbcPkt'.frame_count > 0]_vars

\* C25: when the encoder fails on a frame, that frame is taken out of the
\* input buffer (it is not tried again), and the endpoint is not released
\* and the thread does not end while the client holds the PCM.  (Refuted:
\* the failing frame stays buffered, and a buffer it has filled makes the
\* next read release the endpoint.)
C25_CodecErrorDropsFrame ==
  [][/\ sbcEvt'.err
          => pcmLen' <= pcmLen + sbcEvt'.read - (sbcEvt'.frames + 1) * sbcCfg.codesize
     /\ (sess[1].cli /\ PcmCapacity(sbcCfg) > 0) => pcmFd'["a2dp"] = pcmFd["a2dp"]]_vars


(***************************************************************************)
(* Properties of the AAC fragmentation.                                    *)
(***************************************************************************)
\* The current frame is done with: nothing of it is left to send.
AacFrameDone == aacN > 0 /\ aacLen = 0 /\ aacFrags # <<>>

\* The fragments lie one behind the other in the frame, from its start.
AacInOrder ==
  \A i \in 1..Len(aacFrags) :
    aacFrags[i].from = IF i = 1 THEN 0
                       ELSE aacFrags[i - 1].from + aacFrags[i - 1].len

\* The fragments make up the whole frame, and all of them were written.
AacWhole ==
  /\ \A i \in 1..Len(aacFrags) : aacFrags[i].res = "ok"
  /\ AacInOrder
  /\ aacFrags[Len(aacFrags)].from + aacFrags[Len(aacFrags)].len = aacFrame

\* C22 as stated: a frame the AAC source is done with went out whole: its
\* fragments, in sending order, make up the frame exactly, and the last of
\* them has the mark bit.  (Refuted: a write that fails without ending the
\* loop ends the frame.)
C22_FrameSentWhole ==
  (AacFrameDone /\ aacPc = "loop") =>
    /\ AacWhole
    /\ aacFrags[Len(aacFrags)].markbit

\* C22, amended: the fragments of a frame carry at most mtu_write - 12
\* bytes each and lie one behind the other in the frame; the mark bit is
\* set on the fragment that holds the end of the frame and on no other; the
\* sequence numbers go up by one (modulo 65536) and the timestamp is the
\* same on all of them; a frame that fits goes out as one packet with the
\* mark bit; when every write succeeded the fragments make up the frame
\* exactly, and a write that failed is the last one for its frame.
C22_FragmentsOfFrame ==
  /\ \A i \in 1..Len(aacFrags) :
       /\ aacFrags[i].len \in 1..(AacMtuWrite - 12)
       /\ aacFrags[i].ts = aacFrags[1].ts
       /\ aacFrags[i].markbit <=> (aacFrags[i].from + aacFrags[i].len = aacFrame)
       /\ i > 1 => aacFrags[i].seq = (aacFrags[i - 1].seq + 1) % 65536
       /\ i < Len(aacFrags) => aacFrags[i].res = "ok"
  /\ AacInOrder
  /\ (aacFrags # <<>> /\ aacFrame <= AacMtuWrite - 12)
       => (Len(aacFrags) = 1 /\ aacFrags[1].markbit /\ aacFrags[1].len = aacFrame)
  /\ (AacFrameDone /\ aacFrags[Len(aacFrags)].res = "ok") => AacWhole
  /\ (aacLen > 0) => aacLen = aacFrame - aacOff

\* A frame of nine bytes went out in three fragments, numbered across the
\* wrap of the sequence number.
C22_Witness ==
  /\ aacFrame = 9
  /\ aacLen = 0
  /\ Len(aacFrags) = 3
  /\ AacWhole
  /\ aacFrags[1].seq = 65535
  /\ aacFrags[3].seq = 1
  /\ aacFrags[3].markbit


(***************************************************************************)
(* Properties of the software volume.                                      *)
(***************************************************************************)
\* C23: with a2dp.volume enabled (the volume is forwarded to the peer) no
\* A2DP flow, source or sink, scales or mutes the PCM samples: they are
\* passed on as they came in.  (Refuted: the sinks scale in any case.)
C23_NoScalingWhenForwarded ==
  (a2dp_volume /\ volFlow # "none") => volOut = volIn


(***************************************************************************)
(* Properties of the H2 header scan.                                       *)
(***************************************************************************)
\* The offsets of the data at which the four valid headers stand.
H2Offsets ==
  {i \in 0..(Len(h2Data) - 2) :
     h2Data[i + 1] = 1 /\ h2Data[i + 2] \in {8, 56, 200, 248}}

\* The smallest of a non-empty set of offsets.
MinOffset(S) == CHOOSE i \in S : \A j \in S : i <= j

\* What the call is to yield for data of one byte or more.
H2Expected ==
  IF H2Offsets = {}
    THEN h2Res = [ptr |-> NoOffset, len |-> 1]
  ELSE h2Res = [ptr |-> MinOffset(H2Offsets), len |-> Len(h2Data) - MinOffset(H2Offsets)]

C29_ReturnsToWait == (bPc = "batch") ~> (bPc \in {"wait", "exited"})


(***************************************************************************)
(* Properties of the mark bit handling.                                    *)
(***************************************************************************)
\* One of the first three packets handled had the mark bit.
MarkSeenEarly == \E i \in 1..Len(mSeen) : i <= 3 /\ mSeen[i]

\* C30: the AAC sink decides once per thread, from the first three packets
\* it gets while a PCM is open: if one of them has the mark bit, fragments
\* are put together for the rest of the thread's life (a packet without the
\* mark bit is kept, and decoded when one with the mark bit comes); if none
\* has, every packet from the third on is decoded as it comes; the decision
\* is not changed afterwards, whatever the later packets and the PCM do.
C30_MarkbitDecidedOnce ==
  /\ MarkSeenEarly => markbit_quirk = 0
  /\ (~MarkSeenEarly /\ Len(mSeen) >= 3) => markbit_quirk = 1
  /\ (~MarkSeenEarly /\ Len(mSeen) < 3) => markbit_quirk = Len(mSeen) - 3
  /\ mLast.handled =>
       /\ markbit_quirk = 0 => (mLast.decoded <=> mLast.markbit)
       /\ markbit_quirk = 1 => mLast.decoded
       /\ markbit_quirk < 0 => ~mLast.decoded
  /\ mLast.decoded => mLatm = 0

\* Three packets without the mark bit came, the third was decoded; the
\* fourth had the mark bit and the fifth not, and both were decoded too.
C30_Witness ==
  /\ mSeen = <<FALSE, FALSE, FALSE, TRUE, FALSE>>
  /\ markbit_quirk = 1
  /\ mLast = [markbit |-> FALSE, decoded |-> TRUE, handled |-> TRUE]


\* C28: on every way out of an A2DP I/O thread the transport lock is held
\* exactly once when ba_transport_pthread_cleanup runs: the thread never
\* holds the lock twice, and the handler has run, with the lock held once,
\* exactly when the thread has ended.
C28_LockHeldOnceAtCleanup ==
  thFlow \in A2dpFlows =>
    /\ lockCount \in {0, 1}
    /\ thPc = "returned" => cleanupLock = 1 /\ lockCount = 0
    /\ thPc # "returned" => cleanupLock = -1

\* A source has left through final, holding the lock taken at the
\* keep-alive expiry, and the handler has run.
C28_Witness ==
  /\ thFlow \in A2dpFlows
  /\ thPc = "returned"
  /\ thWay = "timeout"
  /\ locked
  /\ cleanupLock = 1

\* The parts of C27: a running thread has cancellation enabled only in
\* poll(); it is disabled while the codec is called and the buffers are
\* moved; it is disabled while the transport lock is held.
EnabledOnlyInPoll ==
  cancelstate = "enable" /\ thPc # "start" => thPc \in {"poll", "sco_poll"}
CodecCallsDisabled ==
  thPc \in {"codec", "msbc", "sync", "transfer"} => cancelstate = "disable"
LockHeldDisabled ==
  lockCount > 0 => cancelstate = "disable"

\* C27: the cancellation state of an I/O thread is enabled only while it
\* waits for readiness, and it is disabled during every codec call, during
\* every buffer seek, shift or rewind, and whenever the thread holds the
\* transport lock.
C27_EnabledOnlyWhileWaiting ==
  /\ EnabledOnlyInPoll
  /\ CodecCallsDisabled
  /\ LockHeldDisabled


\* C31: in an A2DP sink every packet whose sequence number is not the
\* expected one is reported and the counter takes the received number,
\* except the first packet after the start or after a period with no PCM
\* open, which is taken silently; the packet is decoded in all cases.
C31_MismatchWarns ==
  sinkLast.handled =>
    /\ sinkLast.decoded
    /\ sink_seq = sinkLast.recv
    /\ sinkLast.warned <=> (sinkLast.recv # sinkLast.expected /\ ~sinkLast.fresh)


\* C32: after an Open that failed with the PCM pipe already created (the
\* fcntl failed, or acquire failed on an A2DP source) the endpoint's fd is
\* -1 and every descriptor the Open created is closed, so that the same
\* Open made again is not refused as busy and no endpoint names a closed
\* descriptor.
C32_FailedOpenResetsFd ==
  (last.op = "Open" /\ last.res \in {"FAILED_SETUP", "FAILED_ACQUIRE"}) =>
    /\ pcmFd[last.ep] = NoFd
    /\ ~sess[nOpens].int /\ ~sess[nOpens].cli /\ ~sess[nOpens].ctl
    /\ OpenCheck(profile, codec, last.arg[1], pcmFd) # "FAILED_EBUSY"
    /\ \A ep \in Endpoints : pcmFd[ep] # NoFd => sess[pcmFd[ep]].int


\* C33: the end of file of a client's control channel releases that
\* client's session only: the descriptor it closes is the one of its own
\* Open or none, and PCM_CLOSE is not sent while the endpoint holds the
\* session of another client.
C33_EofReleasesOwnSession ==
  /\ roLast.n # 0 => roLast.fd \in {NoFd, roLast.n}
  /\ \A n \in 1..MaxReopens :
       (roSess[n].ctl /\ roSess[n].cli) => (roSess[n].int /\ roFd[roSess[n].ep] = n)


\* C34: once "OK" was sent for a Pause, the A2DP source thread reads no PCM
\* from the FIFO and writes no packet to the BT socket until a Resume is
\* handled, whatever it was doing when the Pause arrived.
C34_NoTransferAfterPauseOk ==
  ~(paLast.op \in {"read", "write"} /\ paLast.paused)


\* The names of the signals emitted after the first n.
SigsAfter(n) == [i \in 1..(Len(events) - n) |-> events[n + i].sig]

\* C35: a register call directly followed by an unregister call leaves the
\* reference count as it was before the register call and emits a matching
\* pair (PCMAdded then PCMRemoved, or neither for an RFCOMM transport); this
\* holds as well when the export failed (id 0): both signals or neither, and
\* no reference kept.
C35_RegisterUnregisterBalanced ==
  \A i \in 1..(Len(rgLog) - 1) :
    (i + 1 = Len(rgLog) /\ rgLog[i].op = "register"
       /\ rgLog[i + 1].op = "unregister")
    => /\ refs = rgLog[i].refs
       /\ SigsAfter(rgLog[i].nev) \in {<<>>, <<"PCMAdded", "PCMRemoved">>}


\* A step in which the SCO loop reads one signal and acts on it.
ScoSignalStep ==
  /\ IsSco(profile)
  /\ ioPc = "poll" /\ ioPc' = "top"
  /\ sigq # <<>> /\ sigq' = Tail(sigq)
  /\ ioEvt'.kind = "signal"

\* C36: in the SCO loop, after any signal other than PCM_DROP the link is
\* released when the speaker and the microphone PCM are both closed, or when
\* the profile is HFP-HF and neither a call nor a call setup is going on;
\* otherwise t->acquire is called (the link is up when it succeeds and is
\* left as it was when it fails).  So a PCM_CLOSE read with no client PCM
\* open leaves the link released.
C36_ReleaseOrAcquire ==
  [][(ScoSignalStep /\ Head(sigq).sig # "PCM_DROP")
       => IF \/ pcmFd["spk"] = NoFd /\ pcmFd["mic"] = NoFd
             \/ profile = HFP_HF /\ ~hfpCall
            THEN btFd' = NoFd
            ELSE btFd' \in {1, btFd}]_vars

C36_Witness ==
  /\ profile = HFP_AG
  /\ ioPc = "top"
  /\ ioEvt.kind = "signal" /\ ioEvt.sig = "PCM_CLOSE"
  /\ \A e \in Endpoints : pcmFd[e] = NoFd
  /\ btFd = NoFd


\* C37: a mixer callback called with a key that is not the index of a
\* current element (key >= elem_list_size) returns -EINVAL and does not
\* read or write elem_list[key].
C37_KeyBeyondListRefused ==
  (mxLast.cb # "none" /\ mxLast.key >= mxLast.size)
    => (mxLast.ret = "EINVAL" /\ ~mxLast.accessed)


\* The slots of the workers marked active.
ActiveWorkers == {i \in 1..workers_count : workers[i].active}

\* C38: in single-audio mode (pcm_mixer off) at most one worker is active
\* at any time, under every interleaving of the worker threads.
C38_OneActiveWorker ==
  ~pcm_mixer => Cardinality(ActiveWorkers) <= 1

\* C39: a PCMRemoved for a path that is not in the PCM list is ignored: no
\* worker is stopped and no null PCM record is dereferenced.
C39_UnknownPathIgnored ==
  (apLast.op = "PCMRemoved" /\ ~apLast.known)
    => (~apLast.deref /\ apLast.stopped = 0)

\* The worker threads that have not ended.
RunningWorkers == {t \in 1..Len(wk) : wk[t].pc \in {"start", "poll", "got", "open"}}

\* C40: every running worker thread works on its own record for its whole
\* life: the storage its pointer w names is the current array and holds the
\* record of this thread, whatever workers were started or stopped since.
C40_OwnRecord ==
  \A t \in RunningWorkers :
    /\ wk[t].block = wBlock
    /\ workers[wk[t].slot].thread = t
    /\ workers[wk[t].slot].path = wk[t].path

=============================================================================
